---- MODULE Spec2Model ----
(***************************************************************************)
(* Model of the block device backed block allocator of bb-storage          *)
(* (pkg/blobstore/local/block_device_backed_block_allocator.go).           *)
(*                                                                         *)
(* The allocator partitions a block device into BlockCount blocks of       *)
(* BlockSectorCount sectors of SectorSizeBytes bytes.  Block handles are   *)
(* reference counted; Get streams and Put writers each own one reference.  *)
(* The callers are the most general environment: they may also break the   *)
(* documented contracts, which is recorded in `violations`.                *)
(***************************************************************************)
EXTENDS Integers, Sequences, FiniteSets, TLC

(* ------------------------------ bounds --------------------------------- *)

\* Geometry of the device handed to NewBlockDeviceBackedBlockAllocator: the
\* sector size, the sectors per block and the largest number of blocks.
SectorSizeBytes == 2
BlockSectorCount == 2
MaxBlockCount == 3

\* Number of Block handles, Get streams and Put writers the callers create.
MaxHandles == 3
MaxReaders == 1
MaxWriters == 1
\* Largest sizeBytes passed to Put and to Get.
MaxPutSize == 3
\* Largest byte value (bytes are 0..MaxByte).
MaxByte == 2
\* Number of spontaneous failures of device writes and of byte sources.
MaxFaults == 1
\* Number of calls by which the callers break a documented contract.
MaxViolations == 1
\* The device, the handles and the writers of the callers that exercise the
\* data path (SpecData).
DataBlockCount == 2
DataHandles == 2
DataWriters == 2
\* The handles and the writers of the callers that exercise one Block and
\* its sector writer (SpecBlock).
BlockHandles == 1
BlockWriters == 1
\* The handles and the writers of the callers that exercise the cursor of one
\* Block (SpecSpace).
SpaceHandles == 2
SpaceWriters == 2
\* The handles and the writers of the callers that make Puts without a lock
\* (SpecRace).
RaceHandles == 1
RaceWriters == 2
\* The blocks of the device and the handles of the callers that retry
\* NewBlock (SpecLive).
LiveBlockCount == 2
LiveHandles == 4
\* The digests that one FindMissing call of the completeness check takes,
\* and the output files and output directories of an ActionResult
\* (SpecCompleteness).
BatchSize == 2
MaxOutputFiles == 2
MaxOutputDirectories == 1
\* The certificates that the files of a certInfo hold one after the other
\* (SpecCert).
MaxSerial == 2
\* Handles and concurrent Puts of the callers that ask HasSpace before
\* every Put (SpecRegion).
RegionHandles == 3
RegionWriters == 2
\* The policies inside an "any" authentication policy (SpecAuth).
MaxChildren == 2
\* The largest number of blocks that the BlockList holds of a kind, or is
\* configured to hold (SpecPolicy).
MaxPolicyBlocks == 4
\* Width in bits of the signed integers of the model; the code's int64 has
\* 64, which is scaled down so that the values next to its limits are
\* reached.
IntBits == 8

VARIABLES
    policy,         \* the BlockListGrowingPolicy created last
    blockList,      \* the numbers of Blocks of each kind of the BlockList
    certInfo,       \* the certInfo object of the TLS configuration
    blockCount,     \* the blockCount the allocator was constructed with
    freeOffsets,    \* pa.freeOffsets: sequence of device offsets (sectors)
    blocks,         \* every blockDeviceBackedBlock object created so far
    readers,        \* every blockDeviceBackedBlockReader created so far
    writers,        \* every BlockPutWriter closure created so far
    device,         \* contents of the block device, byte 0 at index 1
    allocations,    \* blockDeviceBackedBlockAllocatorAllocations
    releases,       \* blockDeviceBackedBlockAllocatorReleases
    getsStarted,    \* blockDeviceBackedBlockAllocatorGetsStarted
    getsCompleted,  \* blockDeviceBackedBlockAllocatorGetsCompleted
    aborted,        \* a panic has terminated the process
    ret,            \* outcome of the last call, if to the allocator or a writer
    violations,     \* the contracts the callers have broken, one per call
    faults          \* device and byte source failures injected so far

vars == <<policy, blockList, certInfo, blockCount, freeOffsets, blocks, readers, writers, device,
          allocations, releases, getsStarted, getsCompleted, aborted, ret,
          violations, faults>>

(* ----------------------------- geometry -------------------------------- *)

BlockBytes == BlockSectorCount * SectorSizeBytes
DeviceBytes == blockCount * BlockBytes
Byte == 0 .. MaxByte
\* What the device holds before the allocator writes to it: not zero.
Stale == MaxByte

\* The offsets NewBlockDeviceBackedBlockAllocator puts in the free list.
InitialFreeOffsets(count) == [i \in 1 .. count |-> (i - 1) * BlockSectorCount]
AllOffsets == {InitialFreeOffsets(blockCount)[i] : i \in 1 .. blockCount}

\* Arithmetic of int64: a result outside the range wraps around, and the
\* quotient is truncated towards zero.
MaxInt64 == 2 ^ (IntBits - 1) - 1
Wrap(x) == ((x + 2 ^ (IntBits - 1)) % (2 ^ IntBits)) - 2 ^ (IntBits - 1)
Quot(a, b) == IF a >= 0 THEN a \div b ELSE 0 - ((0 - a) \div b)

toSectorsRoundDown(sizeBytes) == Quot(sizeBytes, SectorSizeBytes)

toSectors(sizeBytes) ==
    Quot(Wrap(sizeBytes + SectorSizeBytes - 1), SectorSizeBytes)

getBlockLocationMessageInSectors(deviceOffsetSectors) ==
    [offsetBytes |-> deviceOffsetSectors,
     sizeBytes   |-> BlockSectorCount]

getBlockLocationMessage(deviceOffsetSectors) ==
    [offsetBytes |-> deviceOffsetSectors * SectorSizeBytes,
     sizeBytes   |-> BlockSectorCount * SectorSizeBytes]

NoLocation == [offsetBytes |-> -1, sizeBytes |-> -1]

\* A new blockDeviceBackedBlock: usecount.Initialize(1).  `held` records that
\* the caller that received the handle has not yet called Release on it.
newBlockObjectInheritsCursor(deviceOffsetSectors, writeOffsetSectors) ==
    LET earlier == {h \in 1 .. Len(blocks) :
                        blocks[h].deviceOffsetSectors = deviceOffsetSectors}
    IN  [deviceOffsetSectors |-> deviceOffsetSectors,
         writeOffsetSectors  |->
            IF earlier = {} THEN writeOffsetSectors
            ELSE blocks[CHOOSE h \in earlier : \A g \in earlier : g <= h]
                    .writeOffsetSectors,
         usecount            |-> 1,
         held                |-> TRUE,
         freeing             |-> FALSE]

newBlockObject(deviceOffsetSectors, writeOffsetSectors) ==
    [deviceOffsetSectors |-> deviceOffsetSectors,
     writeOffsetSectors  |-> writeOffsetSectors,
     usecount            |-> 1,
     held                |-> TRUE,
     freeing             |-> FALSE]

(* ---------------------------- free list -------------------------------- *)

\* pa.freeOffsets[1:]
PopFront(s) == SubSeq(s, 2, Len(s))

RemoveLastOnly(s, i) == SubSeq(s, 1, Len(s) - 1)

SwapLastNoTruncate(s, i) ==
    [j \in 1 .. Len(s) |-> IF j = i THEN s[Len(s)] ELSE s[j]]

\* pa.freeOffsets[i] = pa.freeOffsets[len-1]; pa.freeOffsets = [:len-1]
RemoveSwapLast(s, i) ==
    [j \in 1 .. Len(s) - 1 |-> IF j = i THEN s[Len(s)] ELSE s[j]]

MatchingOffsetOnly(location) ==
    {i \in 1 .. Len(freeOffsets) :
        getBlockLocationMessage(freeOffsets[i]).offsetBytes
            = location.offsetBytes}

\* Indices of the free list whose location message equals `location`.
Matching(location) ==
    {i \in 1 .. Len(freeOffsets) :
        getBlockLocationMessage(freeOffsets[i]) = location}

\* The index at which the range loop of NewBlockAtLocation stops.
FirstMatch(location) ==
    CHOOSE i \in Matching(location) : \A j \in Matching(location) : i <= j

SeqCount(s, x) == Cardinality({i \in 1 .. Len(s) : s[i] = x})

(* ------------------------------- Init ---------------------------------- *)

NoReturn == [op |-> "none", ok |-> TRUE, block |-> 0, location |-> NoLocation]

\* No BlockListGrowingPolicy has been created.
NoPolicy == [kind |-> "none", desired |-> 0]

\* The BlockList of a map that has not been started.
NoBlockList ==
    [started |-> FALSE, oldBlocks |-> 0, currentBlocks |-> 0, newBlocks |-> 0]

\* No SVID (a nil pointer), and the certInfo that has not been created.
NilSVID == [serial |-> 0, td |-> "", expiring |-> FALSE]
NoCertInfo == [created |-> FALSE, svid |-> NilSVID, td |-> "", bundle |-> {}]

\* The state NewBlockDeviceBackedBlockAllocator returns for a device of
\* `count` blocks.
InitWith(count) ==
    /\ policy = NoPolicy
    /\ blockList = NoBlockList
    /\ certInfo = NoCertInfo
    /\ blockCount = count
    /\ freeOffsets = InitialFreeOffsets(count)
    /\ blocks = <<>>
    /\ readers = <<>>
    /\ writers = <<>>
    /\ device = [i \in 1 .. count * BlockBytes |-> Stale]
    /\ allocations = 0
    /\ releases = 0
    /\ getsStarted = 0
    /\ getsCompleted = 0
    /\ aborted = FALSE
    /\ ret = NoReturn
    /\ violations = <<>>
    /\ faults = 0

Init == \E count \in 1 .. MaxBlockCount : InitWith(count)

(* ----------------------------- allocator ------------------------------- *)

NoFreeBlocksOffByOne == Len(freeOffsets) <= 1

\* The test of NewBlock for an exhausted free list.
NoFreeBlocks == Len(freeOffsets) = 0

\* NewBlock: under pa.lock, pop the head of the free list.
NewBlock ==
    /\ ~aborted
    /\ IF NoFreeBlocks
       THEN /\ ret' = [op |-> "NewBlock", ok |-> FALSE, block |-> 0,
                       location |-> NoLocation]
            /\ UNCHANGED <<freeOffsets, blocks, allocations>>
       ELSE LET deviceOffsetSectors == freeOffsets[1] IN
            /\ freeOffsets' = PopFront(freeOffsets)
            /\ blocks' = Append(blocks, newBlockObject(deviceOffsetSectors, 0))
            /\ allocations' = allocations + 1
            /\ ret' = [op |-> "NewBlock", ok |-> TRUE,
                       block |-> Len(blocks) + 1,
                       location |-> getBlockLocationMessage(deviceOffsetSectors)]
    /\ UNCHANGED <<policy, blockList, certInfo, blockCount, readers, writers, device, releases, getsStarted,
                   getsCompleted, aborted, violations, faults>>

\* Locations a caller may pass to NewBlockAtLocation: those of the blocks, one
\* that is sector aligned but starts no block, one past the device, and one
\* of a block but with a size that is not the block size.
BlockLocations == {getBlockLocationMessage(o) : o \in AllOffsets}
Locations ==
    BlockLocations \cup
    {[offsetBytes |-> SectorSizeBytes, sizeBytes |-> BlockBytes],
     [offsetBytes |-> DeviceBytes, sizeBytes |-> BlockBytes],
     [offsetBytes |-> 0, sizeBytes |-> BlockBytes + 1]}

\* NewBlockAtLocation: under pa.lock, remove the first matching offset.
writeOffsetSectorsAtRoundDown(writeOffsetBytes) ==
    Quot(writeOffsetBytes, SectorSizeBytes)

\* (writeOffsetBytes + sectorSizeBytes - 1) / sectorSizeBytes, the cursor that
\* NewBlockAtLocation gives to the Block.
writeOffsetSectorsAt(writeOffsetBytes) ==
    Quot(Wrap(writeOffsetBytes + SectorSizeBytes - 1), SectorSizeBytes)

NewBlockAtLocation(location, writeOffsetBytes) ==
    /\ ~aborted
    /\ IF Matching(location) = {}
       THEN /\ ret' = [op |-> "NewBlockAtLocation", ok |-> FALSE, block |-> 0,
                       location |-> location,
                       writeOffsetBytes |-> writeOffsetBytes]
            /\ UNCHANGED <<freeOffsets, blocks, allocations>>
       ELSE LET i == FirstMatch(location)
                deviceOffsetSectors == freeOffsets[i] IN
            /\ freeOffsets' = RemoveSwapLast(freeOffsets, i)
            /\ blocks' = Append(blocks,
                    newBlockObject(deviceOffsetSectors,
                                   writeOffsetSectorsAt(writeOffsetBytes)))
            /\ allocations' = allocations + 1
            /\ ret' = [op |-> "NewBlockAtLocation", ok |-> TRUE,
                       block |-> Len(blocks) + 1, location |-> location,
                       writeOffsetBytes |-> writeOffsetBytes]
    /\ UNCHANGED <<policy, blockList, certInfo, blockCount, readers, writers, device, releases, getsStarted,
                   getsCompleted, aborted, violations, faults>>

(* ------------------------------- Block --------------------------------- *)

\* The callers' contracts: a call on a handle is made by a caller that holds
\* it ("refcount"), Put is called only when HasSpace holds ("space"), phase 1
\* of the Puts on one Block is made one at a time ("serial").
Broke(kind) == \E i \in 1 .. Len(violations) : violations[i] = kind
MayCall(breaks) == breaks => Len(violations) < MaxViolations
Record(breaks, kind) ==
    violations' = IF breaks THEN Append(violations, kind) ELSE violations

\* The byte ranges callers read from the Block with handle h: the first byte,
\* and every range a finalizer of a Put on h has returned without error.
GetRanges(h) ==
    {<<0, 1>>} \cup
    {<<writers[w].writeOffsetSectors * SectorSizeBytes, writers[w].sizeBytes>> :
        w \in {v \in 1 .. Len(writers) :
                    /\ writers[v].block = h
                    /\ writers[v].pc = "done"
                    /\ ~writers[v].err}}

\* A stream after Close: r.block = nil.
ClosedReader == [block |-> 0, offsetBytes |-> 0, sizeBytes |-> 0, pc |-> "closed"]

ReleaseOutcomeEarly(c) ==
    IF c < 0 THEN "panic" ELSE IF c <= 1 THEN "free" ELSE "keep"

ReleaseOutcomeNoPanic(c) == IF c <= 0 THEN "free" ELSE "keep"

\* What Release does with the count c it reads back from usecount.Add(-1).
ReleaseOutcome(c) ==
    IF c < 0 THEN "panic" ELSE IF c = 0 THEN "free" ELSE "keep"

AcquireOutcomeOffByOne(c) == IF c < 1 THEN "panic" ELSE "ok"

AcquireOutcomeNoPanic(c) == "ok"

\* What Get and Put do with the count c they read back from usecount.Add(1).
AcquireOutcome(c) == IF c <= 1 THEN "panic" ELSE "ok"

DecrementForgotten(h) == blocks

\* usecount.Add(-1) of Release on handle h and the branch taken on the result:
\* `freeing` is set while the call is between the decrement that gave zero and
\* the append to the free list.
Decremented(h) ==
    LET c == blocks[h].usecount - 1 IN
    [blocks EXCEPT ![h].usecount = c,
                   ![h].freeing = @ \/ ReleaseOutcome(c) = "free"]

\* Release called by the holder of the handle (or once more by a caller that
\* no longer holds it): the atomic decrement.
Release(h) ==
    /\ ~aborted
    /\ h \in 1 .. Len(blocks)
    /\ LET c == blocks[h].usecount - 1 IN
       /\ blocks' = [Decremented(h) EXCEPT ![h].held = FALSE]
       /\ aborted' = (ReleaseOutcome(c) = "panic")
       /\ ret' = NoReturn
    /\ MayCall(~blocks[h].held)
    /\ Record(~blocks[h].held, "refcount")
    /\ UNCHANGED <<policy, blockList, certInfo, blockCount, freeOffsets, readers, writers, device, allocations,
                   releases, getsStarted, getsCompleted, faults>>

AppendedTwice(h) ==
    Append(Append(freeOffsets, blocks[h].deviceOffsetSectors),
           blocks[h].deviceOffsetSectors)

AppendedForgotten(h) == freeOffsets

\* pa.freeOffsets = append(pa.freeOffsets, pb.deviceOffsetSectors)
Appended(h) == Append(freeOffsets, blocks[h].deviceOffsetSectors)

\* The branch c == 0 of Release: under pa.lock append the offset to the free
\* list, then count the release.  The caller that was inside Release (a
\* stream being closed, a writer in phase 2) continues after it.
ReleaseAppend(h) ==
    /\ ~aborted
    /\ h \in 1 .. Len(blocks)
    /\ blocks[h].freeing
    /\ freeOffsets' = Appended(h)
    /\ blocks' = [blocks EXCEPT ![h].freeing = FALSE]
    /\ releases' = releases + 1
    /\ readers' = [r \in 1 .. Len(readers) |->
            IF readers[r].block = h /\ readers[r].pc = "releasing"
            THEN ClosedReader
            ELSE readers[r]]
    /\ getsCompleted' = getsCompleted + Cardinality(
            {r \in 1 .. Len(readers) :
                readers[r].block = h /\ readers[r].pc = "releasing"})
    /\ writers' = [w \in 1 .. Len(writers) |->
            IF writers[w].block = h /\ writers[w].pc = "releasing"
            THEN [writers[w] EXCEPT !.pc = "done"]
            ELSE writers[w]]
    /\ ret' = NoReturn
    /\ UNCHANGED <<policy, blockList, certInfo, blockCount, device, allocations, getsStarted, aborted, violations,
                   faults>>

\* Get: usecount.Add(1), panic when the result is <= 1, else count the read
\* and return a stream over the section of the device.
Get(h, offsetBytes, sizeBytes) ==
    /\ ~aborted
    /\ h \in 1 .. Len(blocks)
    /\ LET c == blocks[h].usecount + 1 IN
       /\ blocks' = [blocks EXCEPT ![h].usecount = c]
       /\ IF AcquireOutcome(c) = "panic"
          THEN /\ aborted' = TRUE
               /\ UNCHANGED <<readers, getsStarted>>
          ELSE /\ readers' = Append(readers,
                    [block |-> h,
                     offsetBytes |-> blocks[h].deviceOffsetSectors
                                        * SectorSizeBytes + offsetBytes,
                     sizeBytes |-> sizeBytes,
                     pc |-> "open"])
               /\ getsStarted' = getsStarted + 1
               /\ UNCHANGED aborted
       /\ ret' = NoReturn
    /\ MayCall(~blocks[h].held)
    /\ Record(~blocks[h].held, "refcount")
    /\ UNCHANGED <<policy, blockList, certInfo, blockCount, freeOffsets, writers, device, allocations, releases,
                   getsCompleted, faults>>

\* blockDeviceBackedBlockReader.Close: r.block.Release(); r.block = nil;
\* count the completed read.  On a stream that was closed before r.block is
\* nil and the call dereferences a nil pointer.
Close(r) ==
    /\ ~aborted
    /\ r \in 1 .. Len(readers)
    /\ readers[r].pc \in {"open", "closed"}
    /\ IF readers[r].pc = "closed"
       THEN /\ aborted' = TRUE
            /\ UNCHANGED <<blocks, readers, getsCompleted>>
       ELSE LET h == readers[r].block
                c == blocks[h].usecount - 1 IN
            /\ blocks' = Decremented(h)
            /\ aborted' = (ReleaseOutcome(c) = "panic")
            /\ readers' = [readers EXCEPT
                    ![r] = IF ReleaseOutcome(c) = "keep"
                           THEN ClosedReader
                           ELSE IF ReleaseOutcome(c) = "free"
                           THEN [@ EXCEPT !.pc = "releasing"]
                           ELSE @]
            /\ getsCompleted' = getsCompleted +
                    (IF ReleaseOutcome(c) = "keep" THEN 1 ELSE 0)
    /\ ret' = NoReturn
    /\ UNCHANGED <<policy, blockList, certInfo, blockCount, freeOffsets, writers, device, allocations, releases,
                   getsStarted, violations, faults>>

(* --------------------------- sector writer ----------------------------- *)

Min(a, b) == IF a < b THEN a ELSE b
Max(a, b) == IF a > b THEN a ELSE b

\* The outcome of a device write: NoFault, or <<n>> for a failure after at
\* most n bytes.  A failing WriteAt may have written any number of leading
\* bytes.
NoFault == <<>>
Faults == {<<n>> : n \in 0 .. MaxPutSize - 1}

\* The bytes of the device from byte offset off (0-based), n of them.
ReadAt(d, off, n) == [i \in 1 .. n |-> d[off + i]]

\* blockDevice.WriteAt(p, off).  With fault = NoFault the write succeeds when
\* it lies inside the device and is cut short with an error when it does not;
\* with a fault it fails after at most `fault` bytes.  A write of no bytes
\* succeeds.
WriteAt(d, p, off, fault) ==
    LET fits == IF off < 0 THEN 0 ELSE Max(0, Min(Len(p), DeviceBytes - off))
        good == Len(p) = 0 \/ (fault = NoFault /\ fits = Len(p))
        n == IF good THEN Len(p)
             ELSE IF fault = NoFault THEN fits
             ELSE Min(fault[1], Min(fits, Len(p) - 1))
    IN  [device |-> [i \in 1 .. DeviceBytes |->
                        IF i > off /\ i <= off + n THEN p[i - off] ELSE d[i]],
         n      |-> n,
         err    |-> ~good]

FilledDropsPartial(partialSector, leading) == leading

\* w.partialSector = append(w.partialSector, p[:leadingSize]...)
Filled(partialSector, leading) == partialSector \o leading

alignedSizeUnrounded(sizeBytes) == sizeBytes

\* The whole sectors in the sizeBytes bytes that follow the leading part.
alignedSize(sizeBytes) == (sizeBytes \div SectorSizeBytes) * SectorSizeBytes

\* blockDeviceBackedBlockWriter.Write(p) on the writer with the given
\* partialSector and offset; fault1 and fault2 are the outcomes of the two
\* calls of WriteAt it can make, `calls` the calls of WriteAt it has made
\* with their offset, their length and whether they failed.
Write(partialSector, offset, d, p, fault1, fault2) ==
    LET sectorSizeBytes == SectorSizeBytes
        topUp == Len(partialSector) > 0
        leadingSize == IF topUp
                       THEN Min(Len(p), sectorSizeBytes - Len(partialSector))
                       ELSE 0
        filled == Filled(partialSector, SubSeq(p, 1, leadingSize))
        first == WriteAt(d, filled, offset * sectorSizeBytes, fault1)
        firstCall == <<[off |-> offset * sectorSizeBytes, len |-> Len(filled),
                        err |-> first.err]>>
    IN  IF topUp /\ Len(filled) < sectorSizeBytes
        THEN [partialSector |-> filled, offset |-> offset, device |-> d,
              n |-> leadingSize, err |-> FALSE, calls |-> <<>>]
        ELSE IF topUp /\ first.err
        THEN [partialSector |-> filled, offset |-> offset,
              device |-> first.device, n |-> leadingSize, err |-> TRUE,
              calls |-> firstCall]
        ELSE
        LET d1 == IF topUp THEN first.device ELSE d
            offset1 == IF topUp THEN offset + 1 ELSE offset
            aligned == alignedSize(Len(p) - leadingSize)
            second == WriteAt(d1,
                        SubSeq(p, leadingSize + 1, leadingSize + aligned),
                        offset1 * sectorSizeBytes, fault2)
            writtenSectors == second.n \div sectorSizeBytes
            calls == (IF topUp THEN firstCall ELSE <<>>) \o
                        <<[off |-> offset1 * sectorSizeBytes,
                           len |-> aligned, err |-> second.err]>>
        IN  IF second.err
            THEN [partialSector |-> <<>>, offset |-> offset1 + writtenSectors,
                  device |-> second.device,
                  n |-> leadingSize + writtenSectors * sectorSizeBytes,
                  err |-> TRUE, calls |-> calls]
            ELSE [partialSector |->
                        SubSeq(p, leadingSize + aligned + 1, Len(p)),
                  offset |-> offset1 + writtenSectors,
                  device |-> second.device, n |-> Len(p), err |-> FALSE,
                  calls |-> calls]

flushUnpadded(partialSector, offset, d, fault) ==
    IF Len(partialSector) = 0
    THEN [device |-> d, err |-> FALSE, calls |-> <<>>]
    ELSE LET last == WriteAt(d, partialSector, offset * SectorSizeBytes, fault)
         IN  [device |-> last.device, err |-> last.err,
              calls |-> <<[off |-> offset * SectorSizeBytes,
                           len |-> Len(partialSector), err |-> last.err]>>]

flushForgotten(partialSector, offset, d, fault) ==
    [device |-> d, err |-> FALSE, calls |-> <<>>]

flushPadsWithStale(partialSector, offset, d, fault) ==
    IF Len(partialSector) = 0
    THEN [device |-> d, err |-> FALSE, calls |-> <<>>]
    ELSE LET padded == partialSector \o
                    [i \in 1 .. SectorSizeBytes - Len(partialSector) |-> Stale]
             last == WriteAt(d, padded, offset * SectorSizeBytes, fault)
         IN  [device |-> last.device, err |-> last.err,
              calls |-> <<[off |-> offset * SectorSizeBytes,
                           len |-> Len(padded), err |-> last.err]>>]

\* blockDeviceBackedBlockWriter.flush(): pad the partial sector with zeroes
\* and write it.
flush(partialSector, offset, d, fault) ==
    IF Len(partialSector) = 0
    THEN [device |-> d, err |-> FALSE, calls |-> <<>>]
    ELSE LET padded == partialSector \o
                    [i \in 1 .. SectorSizeBytes - Len(partialSector) |-> 0]
             last == WriteAt(d, padded, offset * SectorSizeBytes, fault)
         IN  [device |-> last.device, err |-> last.err,
              calls |-> <<[off |-> offset * SectorSizeBytes,
                           len |-> Len(padded), err |-> last.err]>>]

(* -------------------------------- Put ---------------------------------- *)

HasSpace(h, sizeBytes) ==
    Wrap(BlockSectorCount - blocks[h].writeOffsetSectors)
        >= toSectors(sizeBytes)

\* A call of HasSpace(sizeBytes) on handle h and what it returns.
HasSpaceCall(h, sizeBytes) ==
    /\ ~aborted
    /\ h \in 1 .. Len(blocks)
    /\ ret' = [op |-> "HasSpace", ok |-> HasSpace(h, sizeBytes), block |-> h,
               location |-> NoLocation, sizeBytes |-> sizeBytes]
    /\ UNCHANGED <<policy, blockList, certInfo, blockCount, freeOffsets, blocks, readers, writers, device,
                   allocations, releases, getsStarted, getsCompleted, aborted,
                   violations, faults>>

PutSizes == 1 .. MaxPutSize

\* The bytes the buffer handed to writer w delivers: `count` bytes that
\* differ from writer to writer and from position to position.
Data(w, count) == [i \in 1 .. count |-> (w + i) % (MaxByte + 1)]

\* What the buffer of a Put of sizeBytes may deliver: all of it, or one byte
\* less.
Deliveries(sizeBytes) == {sizeBytes, sizeBytes - 1}

AdvancedForgotten(cursor, sizeBytes) == cursor

\* pb.writeOffsetSectors += toSectors(sizeBytes), from the value `cursor`
\* that the statement has read.
Advanced(cursor, sizeBytes) == Wrap(cursor + toSectors(sizeBytes))

\* The BlockPutWriter that Put returns and the blockDeviceBackedBlockWriter it
\* creates: `writeOffsetSectors` is the cursor that Put has read, `data` what
\* the buffer that the caller hands to it delivers, `source` what it still
\* has to deliver, `split` whether a call of Write got a part of it only,
\* `err` and `cause` the error that the finalizer returns and where it comes
\* from.
NewWriter(h, writeOffsetSectors, sizeBytes, data, pc) ==
    [block |-> h,
     writeOffsetSectors |-> writeOffsetSectors,
     sizeBytes |-> sizeBytes,
     data |-> data,
     source |-> data,
     split |-> FALSE,
     partialSector |-> <<>>,
     offset |-> blocks[h].deviceOffsetSectors + writeOffsetSectors,
     err |-> FALSE,
     cause |-> "none",
     pc |-> pc]

\* Put, phase 1, made under the lock of the caller and so in one step:
\* usecount.Add(1), panic when the result is <= 1, else reserve the sectors
\* by advancing the cursor.
Put(h, sizeBytes, data) ==
    /\ ~aborted
    /\ h \in 1 .. Len(blocks)
    /\ LET c == blocks[h].usecount + 1
           writeOffsetSectors == blocks[h].writeOffsetSectors IN
       IF AcquireOutcome(c) = "panic"
       THEN /\ blocks' = [blocks EXCEPT ![h].usecount = c]
            /\ aborted' = TRUE
            /\ UNCHANGED writers
       ELSE /\ blocks' = [blocks EXCEPT
                    ![h].usecount = c,
                    ![h].writeOffsetSectors = Advanced(@, sizeBytes)]
            /\ writers' = Append(writers,
                    NewWriter(h, writeOffsetSectors, sizeBytes, data,
                              "writing"))
            /\ UNCHANGED aborted
    /\ LET breaks == <<~blocks[h].held, ~HasSpace(h, sizeBytes)>> IN
       /\ MayCall(breaks[1] \/ breaks[2])
       /\ violations' = violations
                \o (IF breaks[1] THEN <<"refcount">> ELSE <<>>)
                \o (IF breaks[2] THEN <<"space">> ELSE <<>>)
    /\ ret' = NoReturn
    /\ UNCHANGED <<policy, blockList, certInfo, blockCount, freeOffsets, readers, device, allocations, releases,
                   getsStarted, getsCompleted, faults>>

\* Another Put on handle h is between reading the cursor and advancing it.
Reserving(h) ==
    \E v \in 1 .. Len(writers) :
        writers[v].block = h /\ writers[v].pc = "reserving"

\* Put, phase 1, made without a lock, first part: usecount.Add(1), panic when
\* the result is <= 1, else writeOffsetSectors := pb.writeOffsetSectors.  A
\* caller that starts it while another Put on the Block is between its two
\* parts has not serialized phase 1 ("serial").
PutLoad(h, sizeBytes, data) ==
    /\ ~aborted
    /\ h \in 1 .. Len(blocks)
    /\ LET c == blocks[h].usecount + 1 IN
       /\ blocks' = [blocks EXCEPT ![h].usecount = c]
       /\ IF AcquireOutcome(c) = "panic"
          THEN /\ aborted' = TRUE
               /\ UNCHANGED writers
          ELSE /\ writers' = Append(writers,
                    NewWriter(h, blocks[h].writeOffsetSectors, sizeBytes,
                              data, "reserving"))
               /\ UNCHANGED aborted
    /\ LET breaks == <<~blocks[h].held, Reserving(h)>> IN
       /\ MayCall(breaks[1] \/ breaks[2])
       /\ violations' = violations
                \o (IF breaks[1] THEN <<"refcount">> ELSE <<>>)
                \o (IF breaks[2] THEN <<"serial">> ELSE <<>>)
    /\ ret' = NoReturn
    /\ UNCHANGED <<policy, blockList, certInfo, blockCount, freeOffsets, readers, device, allocations, releases,
                   getsStarted, getsCompleted, faults>>

\* Put, phase 1, made without a lock, second part: pb.writeOffsetSectors +=
\* toSectors(sizeBytes).  The statement reads the cursor and writes it; when
\* it races with that of another Put, the value it adds to is the cursor of
\* now (fresh) or the one that the Put read before.
PutStore(w, fresh) ==
    /\ ~aborted
    /\ w \in 1 .. Len(writers)
    /\ writers[w].pc = "reserving"
    /\ LET h == writers[w].block
           cursor == IF fresh THEN blocks[h].writeOffsetSectors
                     ELSE writers[w].writeOffsetSectors IN
       blocks' = [blocks EXCEPT ![h].writeOffsetSectors =
                        Advanced(cursor, writers[w].sizeBytes)]
    /\ writers' = [writers EXCEPT ![w].pc = "writing"]
    /\ ret' = NoReturn
    /\ UNCHANGED <<policy, blockList, certInfo, blockCount, freeOffsets, readers, device, allocations, releases,
                   getsStarted, getsCompleted, aborted, violations, faults>>

\* The outcomes of one call of Write or flush: no failure, or, while the
\* budget of failures lasts, a failure of one of its device writes.
NoFaults == <<NoFault, NoFault>>
FaultPairs ==
    {NoFaults} \cup
    (IF faults < MaxFaults
     THEN {<<f, NoFault>> : f \in Faults} \cup {<<NoFault, f>> : f \in Faults}
     ELSE {})

AfterIntoWriterReturnsEarly(err) == IF err THEN "done" ELSE "writing"

AfterIntoWriterGoesOn(err) == "writing"

\* Where the BlockPutWriter goes on after a call of w.Write: IntoWriter stops
\* at the first error, flush is then skipped and pb.Release() is next.
AfterIntoWriter(err) == IF err THEN "release" ELSE "writing"

\* Put, phase 2: b.IntoWriter(w) hands the next `count` bytes to w.Write.
PutWrite(w, count, fault) ==
    /\ ~aborted
    /\ w \in 1 .. Len(writers)
    /\ writers[w].pc = "writing"
    /\ count \in 0 .. Len(writers[w].source)
    /\ LET p == SubSeq(writers[w].source, 1, count)
           res == Write(writers[w].partialSector, writers[w].offset, device,
                        p, fault[1], fault[2]) IN
       /\ fault # <<NoFault, NoFault>> => res.err
       /\ device' = res.device
       /\ faults' = faults + (IF fault # <<NoFault, NoFault>> THEN 1 ELSE 0)
       /\ writers' = [writers EXCEPT
                ![w].partialSector = res.partialSector,
                ![w].offset = res.offset,
                ![w].source = SubSeq(@, count + 1, Len(@)),
                ![w].split = @ \/ count < Len(writers[w].data),
                ![w].err = res.err,
                ![w].cause = IF res.err THEN "device" ELSE @,
                ![w].pc = AfterIntoWriter(res.err)]
       /\ ret' = [op |-> "Write", ok |-> ~res.err, block |-> writers[w].block,
                  location |-> NoLocation, writer |-> w, n |-> res.n,
                  calls |-> res.calls]
    /\ UNCHANGED <<policy, blockList, certInfo, blockCount, freeOffsets, blocks, readers, allocations, releases,
                   getsStarted, getsCompleted, aborted, violations>>

\* Put, phase 2: b.IntoWriter(w) returns an error of the byte source before
\* all bytes were handed over.
PutSourceError(w) ==
    /\ ~aborted
    /\ w \in 1 .. Len(writers)
    /\ writers[w].pc = "writing"
    /\ faults' = faults + 1
    /\ writers' = [writers EXCEPT ![w].err = TRUE,
                                  ![w].cause = "source",
                                  ![w].pc = AfterIntoWriter(TRUE)]
    /\ ret' = NoReturn
    /\ UNCHANGED <<policy, blockList, certInfo, blockCount, freeOffsets, blocks, readers, device, allocations,
                   releases, getsStarted, getsCompleted, aborted, violations>>

\* Put, phase 2: IntoWriter has returned nil, w.flush() is called.
PutFlush(w, fault) ==
    /\ ~aborted
    /\ w \in 1 .. Len(writers)
    /\ writers[w].pc = "writing"
    /\ writers[w].source = <<>>
    /\ fault[2] = NoFault
    /\ LET res == flush(writers[w].partialSector, writers[w].offset, device,
                        fault[1]) IN
       /\ fault[1] # NoFault => res.err
       /\ device' = res.device
       /\ faults' = faults + (IF fault[1] # NoFault THEN 1 ELSE 0)
       /\ writers' = [writers EXCEPT
                ![w].err = res.err,
                ![w].cause = IF res.err THEN "device" ELSE @,
                ![w].pc = "release"]
       /\ ret' = [op |-> "flush", ok |-> ~res.err, block |-> writers[w].block,
                  location |-> NoLocation, writer |-> w, n |-> 0,
                  calls |-> res.calls]
    /\ UNCHANGED <<policy, blockList, certInfo, blockCount, freeOffsets, blocks, readers, allocations, releases,
                   getsStarted, getsCompleted, aborted, violations>>

\* Put, phase 2: pb.Release(), after which the finalizer returns
\* writeOffsetSectors * sectorSizeBytes and err.
PutRelease(w) ==
    /\ ~aborted
    /\ w \in 1 .. Len(writers)
    /\ writers[w].pc = "release"
    /\ LET h == writers[w].block
           c == blocks[h].usecount - 1 IN
       /\ blocks' = Decremented(h)
       /\ aborted' = (ReleaseOutcome(c) = "panic")
       /\ writers' = [writers EXCEPT
                ![w].pc = IF ReleaseOutcome(c) = "keep" THEN "done"
                          ELSE IF ReleaseOutcome(c) = "free" THEN "releasing"
                          ELSE @]
    /\ ret' = NoReturn
    /\ UNCHANGED <<policy, blockList, certInfo, blockCount, freeOffsets, readers, device, allocations, releases,
                   getsStarted, getsCompleted, violations, faults>>

(* ------------------------ block list growing policy -------------------- *)

\* NewImmutableBlockListGrowingPolicy(currentBlocks, newBlocks)
NewImmutableBlockListGrowingPolicy(currentBlocks, newBlocks) ==
    /\ policy' = [kind |-> "immutable",
                  desired |-> Wrap(currentBlocks + newBlocks)]
    /\ ret' = NoReturn
    /\ UNCHANGED <<blockList, certInfo, blockCount, freeOffsets, blocks, readers, writers,
                   device, allocations, releases, getsStarted, getsCompleted,
                   aborted, violations, faults>>

\* NewMutableBlockListGrowingPolicy(currentBlocks)
NewMutableBlockListGrowingPolicy(currentBlocks) ==
    /\ policy' = [kind |-> "mutable", desired |-> currentBlocks]
    /\ ret' = NoReturn
    /\ UNCHANGED <<blockList, certInfo, blockCount, freeOffsets, blocks, readers, writers,
                   device, allocations, releases, getsStarted, getsCompleted,
                   aborted, violations, faults>>

immutableShouldGrowNewBlocksInclusive(gp, currentBlocks, newBlocks) ==
    Wrap(currentBlocks + newBlocks) <= gp.desired

\* immutableBlockListGrowingPolicy.ShouldGrowNewBlocks
immutableShouldGrowNewBlocks(gp, currentBlocks, newBlocks) ==
    Wrap(currentBlocks + newBlocks) < gp.desired

immutableShouldGrowCurrentBlocksBelowDesired(gp, currentBlocks) ==
    currentBlocks < gp.desired

\* immutableBlockListGrowingPolicy.ShouldGrowCurrentBlocks
immutableShouldGrowCurrentBlocks(gp, currentBlocks) == FALSE

mutableShouldGrowNewBlocksInclusive(gp, currentBlocks, newBlocks) ==
    newBlocks <= 1

\* mutableBlockListGrowingPolicy.ShouldGrowNewBlocks
mutableShouldGrowNewBlocks(gp, currentBlocks, newBlocks) == newBlocks < 1

mutableShouldGrowCurrentBlocksInclusive(gp, currentBlocks) ==
    currentBlocks <= gp.desired

\* mutableBlockListGrowingPolicy.ShouldGrowCurrentBlocks
mutableShouldGrowCurrentBlocks(gp, currentBlocks) ==
    currentBlocks < gp.desired

\* A call of ShouldGrowNewBlocks on the policy and what it returns.
ShouldGrowNewBlocks(currentBlocks, newBlocks) ==
    /\ policy # NoPolicy
    /\ ret' = [op |-> "ShouldGrowNewBlocks",
               ok |-> IF policy.kind = "immutable"
                      THEN immutableShouldGrowNewBlocks(policy, currentBlocks,
                                                        newBlocks)
                      ELSE mutableShouldGrowNewBlocks(policy, currentBlocks,
                                                      newBlocks),
               block |-> 0, location |-> NoLocation,
               currentBlocks |-> currentBlocks, newBlocks |-> newBlocks]
    /\ UNCHANGED <<policy, blockList, certInfo, blockCount, freeOffsets, blocks, readers, writers,
                   device, allocations, releases, getsStarted, getsCompleted,
                   aborted, violations, faults>>

\* A call of ShouldGrowCurrentBlocks on the policy and what it returns.
ShouldGrowCurrentBlocks(currentBlocks) ==
    /\ policy # NoPolicy
    /\ ret' = [op |-> "ShouldGrowCurrentBlocks",
               ok |-> IF policy.kind = "immutable"
                      THEN immutableShouldGrowCurrentBlocks(policy,
                                                            currentBlocks)
                      ELSE mutableShouldGrowCurrentBlocks(policy,
                                                          currentBlocks),
               block |-> 0, location |-> NoLocation,
               currentBlocks |-> currentBlocks]
    /\ UNCHANGED <<policy, blockList, certInfo, blockCount, freeOffsets, blocks, readers, writers,
                   device, allocations, releases, getsStarted, getsCompleted,
                   aborted, violations, faults>>

(* ------------------------------- block list --------------------------- *)

\* The user of a policy, the OldCurrentNewLocationBlobMap, keeps a BlockList
\* of old, current and new Blocks.  It starts with the Blocks that it has
\* recovered: with a mutable policy at most one of them new, with an
\* immutable one no more current and new ones than the policy desires.
StartBlockList(oldBlocks, currentBlocks, newBlocks) ==
    /\ policy # NoPolicy
    /\ ~blockList.started
    /\ policy.kind = "mutable" => newBlocks <= 1
    /\ policy.kind = "immutable" => currentBlocks + newBlocks <= policy.desired
    /\ blockList' = [started |-> TRUE, oldBlocks |-> oldBlocks,
                     currentBlocks |-> currentBlocks, newBlocks |-> newBlocks]
    /\ ret' = NoReturn
    /\ UNCHANGED <<policy, certInfo, blockCount, freeOffsets, blocks, readers, writers,
                   device, allocations, releases, getsStarted, getsCompleted,
                   aborted, violations, faults>>

\* The map asks the policy whether the new Blocks may grow and adds one when
\* the policy says so.
GrowNewBlocks ==
    /\ blockList.started
    /\ LET grow == IF policy.kind = "immutable"
                   THEN immutableShouldGrowNewBlocks(policy,
                            blockList.currentBlocks, blockList.newBlocks)
                   ELSE mutableShouldGrowNewBlocks(policy,
                            blockList.currentBlocks, blockList.newBlocks) IN
       /\ blockList' = [blockList EXCEPT
                            !.newBlocks = IF grow THEN @ + 1 ELSE @]
       /\ ret' = [op |-> "ShouldGrowNewBlocks", ok |-> grow, block |-> 0,
                  location |-> NoLocation,
                  currentBlocks |-> blockList.currentBlocks,
                  newBlocks |-> blockList.newBlocks]
    /\ UNCHANGED <<policy, certInfo, blockCount, freeOffsets, blocks, readers, writers,
                   device, allocations, releases, getsStarted, getsCompleted,
                   aborted, violations, faults>>

\* The map asks the policy whether the current Blocks may grow and adds one
\* when the policy says so.
GrowCurrentBlocks ==
    /\ blockList.started
    /\ LET grow == IF policy.kind = "immutable"
                   THEN immutableShouldGrowCurrentBlocks(policy,
                            blockList.currentBlocks)
                   ELSE mutableShouldGrowCurrentBlocks(policy,
                            blockList.currentBlocks) IN
       /\ blockList' = [blockList EXCEPT
                            !.currentBlocks = IF grow THEN @ + 1 ELSE @]
       /\ ret' = [op |-> "ShouldGrowCurrentBlocks", ok |-> grow, block |-> 0,
                  location |-> NoLocation,
                  currentBlocks |-> blockList.currentBlocks]
    /\ UNCHANGED <<policy, certInfo, blockCount, freeOffsets, blocks, readers, writers,
                   device, allocations, releases, getsStarted, getsCompleted,
                   aborted, violations, faults>>

\* The oldest new Block becomes a current one ("new"), the oldest current
\* Block an old one ("current"), or the oldest old Block is released
\* ("old").
Rotate(kind) ==
    /\ blockList.started
    /\ \/ /\ kind = "new" /\ blockList.newBlocks > 0
          /\ blockList' = [blockList EXCEPT !.newBlocks = @ - 1,
                                            !.currentBlocks = @ + 1]
       \/ /\ kind = "current" /\ blockList.currentBlocks > 0
          /\ blockList' = [blockList EXCEPT !.currentBlocks = @ - 1,
                                            !.oldBlocks = @ + 1]
       \/ /\ kind = "old" /\ blockList.oldBlocks > 0
          /\ blockList' = [blockList EXCEPT !.oldBlocks = @ - 1]
    /\ ret' = NoReturn
    /\ UNCHANGED <<policy, certInfo, blockCount, freeOffsets, blocks, readers, writers,
                   device, allocations, releases, getsStarted, getsCompleted,
                   aborted, violations, faults>>

(* ------------------- completeness checking blob access ----------------- *)

\* The digests of the test, by the start of their hash, and a digest whose
\* hash is malformed.
Digests == {"38837949", "ebbbb099"}
Malformed == "this is a malformed hash"

\* The sequences over S of at most n elements.
SeqsUpTo(S, n) == UNION {[1 .. k -> S] : k \in 0 .. n}

\* The ActionResult messages the action cache may hold: the digests of the
\* output files, stdout and stderr, and the Tree digests of the output
\* directories.
ActionResults ==
    [files : SeqsUpTo(Digests \cup {Malformed}, MaxOutputFiles),
     trees : SeqsUpTo(Digests \cup {Malformed}, MaxOutputDirectories)]

\* The Tree messages an output directory may refer to: the digests of the
\* files in its directories, and those of its directory nodes.
Trees ==
    [files : SeqsUpTo(Digests \cup {Malformed}, 1),
     directories : SeqsUpTo(Digests, 1)]

\* The backends of one Get: whether the action cache fails, the ActionResult
\* it holds, the Tree that the output directories refer to, whether fetching
\* it fails, the digests the Content Addressable Storage holds, and the
\* number of the FindMissing call that fails (0 for none).
Backends ==
    [acError : BOOLEAN, actionResult : ActionResults, tree : Trees,
     treeError : BOOLEAN, present : SUBSET Digests,
     findMissingError : 0 .. 2]

\* The queue of digests that wait for a FindMissing call, the calls made,
\* and the error met, if any.
EmptyQueue == [pending |-> {}, calls |-> 0, outcome |-> "ok"]

\* One FindMissing call for the pending digests.
finalize(q, b) ==
    IF q.outcome # "ok" \/ q.pending = {} THEN q
    ELSE IF b.findMissingError = q.calls + 1
    THEN [q EXCEPT !.calls = @ + 1, !.outcome = "FindMissingError"]
    ELSE IF q.pending \ b.present # {}
    THEN [q EXCEPT !.calls = @ + 1, !.outcome = "NotFound"]
    ELSE [pending |-> {}, calls |-> q.calls + 1, outcome |-> "ok"]

\* Add one digest of the ActionResult or of a Tree to the queue.
add(q, d, b) ==
    IF q.outcome # "ok" THEN q
    ELSE IF d = Malformed THEN [q EXCEPT !.outcome = "NotFound"]
    ELSE LET q1 == IF Cardinality(q.pending) >= BatchSize
                   THEN finalize(q, b) ELSE q IN
         IF q1.outcome # "ok" THEN q1
         ELSE [q1 EXCEPT !.pending = @ \cup {d}]

RECURSIVE addAll(_, _, _)
addAll(q, ds, b) ==
    IF ds = <<>> THEN q ELSE addAll(add(q, Head(ds), b), Tail(ds), b)

TreeReferencesWithDirectories(tree) == tree.files \o tree.directories

\* The digests of a Tree that are checked: those of its files.  Its
\* directories are contained in the Tree itself.
TreeReferences(tree) == tree.files

\* Fetch the Tree of each of the first k output directories from the Content
\* Addressable Storage and add what it refers to.
RECURSIVE addDirectories(_, _, _)
addDirectories(q, k, b) ==
    IF k = 0 THEN q
    ELSE LET q1 == addDirectories(q, k - 1, b) IN
         IF q1.outcome # "ok" THEN q1
         ELSE IF b.treeError THEN [q1 EXCEPT !.outcome = "GetTreeError"]
         ELSE addAll(q1, TreeReferences(b.tree), b)

\* The check of one ActionResult.
checkCompleteness(b) ==
    LET ar == b.actionResult
        q1 == addAll(EmptyQueue, ar.files \o ar.trees, b)
        q2 == addDirectories(q1, Len(ar.trees), b)
    IN  finalize(q2, b)

\* CompletenessCheckingBlobAccess.Get: the error of the action cache, or the
\* ActionResult when it is complete, or the error of the check.
CompletenessCheckingGet(b) ==
    /\ ret.op = "none"
    /\ LET q == checkCompleteness(b) IN
       ret' = [op |-> "CompletenessCheckingGet",
               ok |-> ~b.acError /\ q.outcome = "ok",
               block |-> 0, location |-> NoLocation,
               backends |-> b,
               outcome |-> IF b.acError THEN "ActionCacheError"
                           ELSE q.outcome,
               result |-> IF ~b.acError /\ q.outcome = "ok"
                          THEN b.actionResult ELSE <<>>,
               calls |-> IF b.acError THEN 0 ELSE q.calls]
    /\ UNCHANGED <<policy, blockList, certInfo, blockCount, freeOffsets, blocks, readers, writers,
                   device, allocations, releases, getsStarted, getsCompleted,
                   aborted, violations, faults>>

(* ----------------------------- authenticator --------------------------- *)

\* The contexts of the requests: what they carry of the peer, of the
\* headers and of a deadline.  No context is returned with an error.
Contexts == [peer : {"none", "tls"}, header : {"", "token"}, deadline : BOOLEAN]
NilContext == [peer |-> "nil", header |-> "nil", deadline |-> FALSE]

NoError == [code |-> "OK", message |-> ""]

\* The messages a deny policy may be configured with.
Messages == {"This service has been disabled", ""}

\* The authentication policies of a configuration file without children: no
\* policy at all, one without a type, allow, deny with a message, and a TLS
\* client certificate policy whose certificate authorities can be read and
\* parsed or not, with or without SPIFFE.
LeafPolicy(type, message, cas, spiffe) ==
    [type |-> type, message |-> message, cas |-> cas, spiffe |-> spiffe,
     children |-> <<>>]
LeafPolicies ==
    {LeafPolicy(t, "", "none", FALSE) : t \in {"nil", "unset", "allow"}}
        \cup {LeafPolicy("deny", m, "none", FALSE) : m \in Messages}
        \cup {LeafPolicy("tls", "", c, sp) :
                c \in {"parsed", "unreadable", "unparsable"},
                sp \in BOOLEAN}
Policies ==
    LeafPolicies \cup
    {[type |-> "any", message |-> "", cas |-> "none", spiffe |-> FALSE,
      children |-> c] : c \in SeqsUpTo(LeafPolicies, MaxChildren)}

\* The Authenticator objects and the result of the factory.
AllowAuthenticator == [kind |-> "allow", message |-> "", children |-> <<>>]
NewDenyAuthenticator(message) ==
    [kind |-> "deny", message |-> message, children |-> <<>>]
NewAnyAuthenticator(children) ==
    [kind |-> "any", message |-> "", children |-> children]
Created(authenticator) == [authenticator |-> authenticator, err |-> NoError]
Failed(code, message) ==
    [authenticator |-> [kind |-> "nil", message |-> "", children |-> <<>>],
     err |-> [code |-> code, message |-> message]]

\* NewAuthenticatorFromConfiguration for a policy without children.
NewLeafAuthenticator(configuration) ==
    IF configuration.type = "nil"
    THEN Failed("InvalidArgument", "Authentication policy not specified")
    ELSE IF configuration.type = "allow" THEN Created(AllowAuthenticator)
    ELSE IF configuration.type = "deny"
    THEN Created(NewDenyAuthenticator(configuration.message))
    ELSE IF configuration.type = "tls"
    THEN IF configuration.cas = "unreadable"
         THEN Failed("FailedPrecondition", "Can't read CA certs")
         ELSE IF configuration.cas = "unparsable"
         THEN Failed("InvalidArgument",
                     "Failed to parse client certificate authorities")
         ELSE IF configuration.spiffe THEN Created(AllowAuthenticator)
         ELSE Created([kind |-> "tls", message |-> "", children |-> <<>>])
    ELSE Failed("InvalidArgument",
                "Configuration did not contain an authentication policy type")

\* The loop over the policies of an "any" policy: the first error, or the
\* children created.
RECURSIVE NewChildren(_)
NewChildren(policies) ==
    IF policies = <<>> THEN Created(<<>>)
    ELSE LET child == NewLeafAuthenticator(Head(policies)) IN
         IF child.err # NoError THEN child
         ELSE LET others == NewChildren(Tail(policies)) IN
              IF others.err # NoError THEN others
              ELSE Created(<<child.authenticator>> \o others.authenticator)

\* NewAuthenticatorFromConfiguration(policy), its policy called configuration
\* here, and what it returns.
NewAuthenticatorFromConfiguration(configuration) ==
    /\ LET made == IF configuration.type = "any"
                   THEN LET children == NewChildren(configuration.children) IN
                        IF children.err # NoError THEN children
                        ELSE Created(NewAnyAuthenticator(
                                        children.authenticator))
                   ELSE NewLeafAuthenticator(configuration) IN
       ret' = [op |-> "NewAuthenticatorFromConfiguration",
               ok |-> made.err = NoError, block |-> 0,
               location |-> NoLocation, configuration |-> configuration,
               authenticator |-> made.authenticator, err |-> made.err,
               ctx |-> NilContext, newCtx |-> NilContext]
    /\ UNCHANGED <<policy, blockList, certInfo, blockCount, freeOffsets, blocks, readers, writers,
                   device, allocations, releases, getsStarted, getsCompleted,
                   aborted, violations, faults>>

allowAuthenticateBackground(authenticator, ctx) ==
    [newCtx |-> [peer |-> "none", header |-> "", deadline |-> FALSE],
     err |-> NoError]

\* AllowAuthenticator.Authenticate(ctx)
allowAuthenticate(authenticator, ctx) == [newCtx |-> ctx, err |-> NoError]

\* denyAuthenticator.Authenticate(ctx)
denyAuthenticate(authenticator, ctx) ==
    [newCtx |-> NilContext,
     err |-> [code |-> "Unauthenticated", message |-> authenticator.message]]

\* A call of Authenticate(ctx) on the allow or deny authenticator that the
\* factory has returned.
Authenticate(ctx) ==
    /\ ret.op \in {"NewAuthenticatorFromConfiguration", "Authenticate"}
    /\ ret.authenticator.kind \in {"allow", "deny"}
    /\ LET out == IF ret.authenticator.kind = "allow"
                  THEN allowAuthenticate(ret.authenticator, ctx)
                  ELSE denyAuthenticate(ret.authenticator, ctx) IN
       ret' = [op |-> "Authenticate", ok |-> out.err = NoError, block |-> 0,
               location |-> NoLocation, configuration |-> ret.configuration,
               authenticator |-> ret.authenticator, err |-> out.err,
               ctx |-> ctx, newCtx |-> out.newCtx]
    /\ UNCHANGED <<policy, blockList, certInfo, blockCount, freeOffsets, blocks, readers, writers,
                   device, allocations, releases, getsStarted, getsCompleted,
                   aborted, violations, faults>>

(* -------------------------------- certInfo ----------------------------- *)

\* What the files hold when loadNewCerts reads them: a certificate file that
\* cannot be read, cannot be parsed, holds a certificate without a SPIFFE ID
\* or holds the certificate `serial` of trust domain `td`, which may be
\* within fifteen minutes of its end already; a key file and a CA file that
\* can be read and parsed or not.
TrustDomains == {"example.org", "example.com"}
Loads ==
    [cert : {"ok", "unreadable", "unparsable", "noid"},
     key : {"ok", "unreadable", "unparsable"},
     ca : {"ok", "unreadable", "unparsable"},
     serial : 1 .. MaxSerial, td : TrustDomains, expiring : BOOLEAN]

\* certInfo.loadNewCerts(certFile, keyFile, caCertFile): the certInfo it
\* leaves and the error it returns ("" for nil).  ci.svid is assigned what
\* x509svid.Parse returns, which is nil when it returns an error; caCertFile
\* tells whether a CA file is named.
loadNewCerts(ci, load, caCertFile) ==
    IF load.cert = "unreadable" THEN [ci |-> ci, err |-> "Can't read certificate"]
    ELSE IF load.key = "unreadable" THEN [ci |-> ci, err |-> "Can't read key"]
    ELSE IF load.cert = "unparsable" \/ load.key = "unparsable"
    THEN [ci |-> [ci EXCEPT !.svid = NilSVID], err |-> "x509svid.Parse"]
    ELSE LET svid == [serial |-> load.serial, td |-> load.td,
                      expiring |-> load.expiring]
             parsed == [ci EXCEPT !.svid = svid] IN
         IF load.cert = "noid"
         THEN [ci |-> parsed, err |-> "x509svid.IDFromCert"]
         ELSE LET trusted == [parsed EXCEPT !.td = load.td] IN
              IF ~caCertFile THEN [ci |-> trusted, err |-> ""]
              ELSE IF load.ca = "unreadable"
              THEN [ci |-> trusted, err |-> "Can't read CA certs"]
              ELSE IF load.ca = "unparsable"
              THEN [ci |-> trusted, err |-> "x509bundle.Parse"]
              ELSE [ci |-> [trusted EXCEPT !.bundle = @ \cup {load.td}],
                    err |-> ""]

\* newCertInfo(certFile, keyFile, caCertFile): the certInfo is returned when
\* loadNewCerts succeeds only.
newCertInfo(load, caCertFile) ==
    /\ ~certInfo.created
    /\ LET res == loadNewCerts([NoCertInfo EXCEPT !.created = TRUE], load,
                               caCertFile) IN
       /\ certInfo' = IF res.err = "" THEN res.ci ELSE NoCertInfo
       /\ ret' = [op |-> "newCertInfo", ok |-> res.err = "", block |-> 0,
                  location |-> NoLocation, err |-> res.err, serial |-> 0]
    /\ UNCHANGED <<policy, blockList, blockCount, freeOffsets, blocks, readers,
                   writers, device, allocations, releases, getsStarted,
                   getsCompleted, aborted, violations, faults>>

\* The function that getCertificate and getClientCertificate return, called
\* by a handshake, under ci.mu from its first statement to its last: it
\* reads ci.svid.Certificates[0], which panics when ci.svid is nil, reloads
\* when the certificate is within fifteen minutes of its end, and returns
\* the certificate of ci.svid.
handshakeCallback(op, load, caCertFile) ==
    /\ ~aborted
    /\ IF certInfo.svid = NilSVID
       THEN /\ aborted' = TRUE
            /\ ret' = [op |-> op, ok |-> FALSE, block |-> 0,
                       location |-> NoLocation, err |-> "panic",
                       serial |-> 0]
            /\ UNCHANGED certInfo
       ELSE IF certInfo.svid.expiring
       THEN LET res == loadNewCerts(certInfo, load, caCertFile) IN
            /\ certInfo' = res.ci
            /\ ret' = [op |-> op, ok |-> res.err = "", block |-> 0,
                       location |-> NoLocation,
                       err |-> IF res.err = "" THEN ""
                               ELSE "Can't reload certs",
                       serial |-> IF res.err = "" THEN res.ci.svid.serial
                                  ELSE 0]
            /\ UNCHANGED aborted
       ELSE /\ ret' = [op |-> op, ok |-> TRUE, block |-> 0,
                       location |-> NoLocation, err |-> "",
                       serial |-> certInfo.svid.serial]
            /\ UNCHANGED <<certInfo, aborted>>
    /\ UNCHANGED <<policy, blockList, blockCount, freeOffsets, blocks, readers,
                   writers, device, allocations, releases, getsStarted,
                   getsCompleted, violations, faults>>

\* certInfo.getCertificate: the callback of a server's handshakes.
getCertificate(load, caCertFile) ==
    /\ certInfo.created
    /\ handshakeCallback("getCertificate", load, caCertFile)

\* certInfo.getClientCertificate: the callback of a client's handshakes.
getClientCertificate(load, caCertFile) ==
    /\ certInfo.created
    /\ handshakeCallback("getClientCertificate", load, caCertFile)

\* Time passes: the certificate of ci.svid comes within fifteen minutes of
\* its NotAfter.
TimePasses ==
    /\ ~aborted
    /\ certInfo.created
    /\ certInfo.svid # NilSVID /\ ~certInfo.svid.expiring
    /\ certInfo' = [certInfo EXCEPT !.svid.expiring = TRUE]
    /\ ret' = NoReturn
    /\ UNCHANGED <<policy, blockList, blockCount, freeOffsets, blocks, readers,
                   writers, device, allocations, releases, getsStarted,
                   getsCompleted, aborted, violations, faults>>

(* ---------------------------- specification ---------------------------- *)

\* The callers of Spec exercise the allocator and the reference counts: they
\* may break the reference-count contract, their Puts write single bytes
\* that the device accepts, and they recover Blocks whose first sector is
\* partly written.
Next ==
    \/ (Len(blocks) < MaxHandles \/ freeOffsets = <<>>) /\ NewBlock
    \/ /\ Len(blocks) < MaxHandles \/ freeOffsets = <<>>
       /\ \E location \in Locations, writeOffsetBytes \in {1} :
            NewBlockAtLocation(location, writeOffsetBytes)
    \/ \E h \in 1 .. Len(blocks) : Release(h)
    \/ \E h \in 1 .. Len(blocks) : ReleaseAppend(h)
    \/ Len(readers) < MaxReaders /\ \E h \in 1 .. Len(blocks) : Get(h, 0, 1)
    \/ \E r \in 1 .. Len(readers) : Close(r)
    \/ /\ Len(writers) < MaxWriters
       /\ \E h \in 1 .. Len(blocks) : Put(h, 1, Data(Len(writers) + 1, 1))
    \/ \E w \in 1 .. Len(writers) : PutWrite(w, 1, NoFaults)
    \/ \E w \in 1 .. Len(writers) : PutFlush(w, NoFaults)
    \/ \E w \in 1 .. Len(writers) : PutRelease(w)

Spec == Init /\ [][Next]_vars

\* The callers of SpecData exercise the data path on a device of
\* DataBlockCount blocks: they keep the reference-count contract, their Puts
\* are of every size, are delivered in one chunk, may be cut short and may
\* meet device failures, and may exceed the space of the Block.
InitData == InitWith(DataBlockCount)

NextData ==
    \/ Len(blocks) < DataHandles /\ NewBlock
    \/ /\ Len(blocks) < DataHandles
       /\ \E location \in BlockLocations, writeOffsetBytes \in {BlockBytes} :
            NewBlockAtLocation(location, writeOffsetBytes)
    \/ \E h \in 1 .. Len(blocks) : blocks[h].held /\ Release(h)
    \/ \E h \in 1 .. Len(blocks) : ReleaseAppend(h)
    \/ /\ Len(readers) < MaxReaders
       /\ \E h \in 1 .. Len(blocks) : \E range \in GetRanges(h) :
            blocks[h].held /\ Get(h, range[1], range[2])
    \/ \E r \in 1 .. Len(readers) : readers[r].pc = "open" /\ Close(r)
    \/ /\ Len(writers) < DataWriters
       /\ \E h \in 1 .. Len(blocks), sizeBytes \in PutSizes :
            \E delivered \in Deliveries(sizeBytes) :
                /\ blocks[h].held
                /\ Put(h, sizeBytes, Data(Len(writers) + 1, delivered))
    \/ \E w \in 1 .. Len(writers), fault \in FaultPairs :
            /\ writers[w].source # <<>>
            /\ PutWrite(w, Len(writers[w].source), fault)
    \/ \E w \in 1 .. Len(writers), fault \in FaultPairs : PutFlush(w, fault)
    \/ \E w \in 1 .. Len(writers) : PutRelease(w)

SpecData == InitData /\ [][NextData]_vars

\* The callers of SpecBlock exercise one Block and its sector writer on a
\* device of one block: they recover the Block with every kind of cursor,
\* keep the reference-count contract and the precondition of Put, and hand
\* their writers every byte string in chunks of every size, empty ones
\* included; the device and the byte source may fail.
InitBlock == InitWith(1)

\* The writeOffsetBytes a caller may pass: none, a partial sector, and one
\* byte more than a block.
WriteOffsets == {0, 1, BlockBytes + 1}
\* The sizes a caller may ask HasSpace for.
SpaceSizes == (0 .. MaxPutSize + 1) \cup {MaxInt64 - 1, MaxInt64}
\* Every byte string of the given length.
Strings(n) == [1 .. n -> Byte]

NextBlock ==
    \/ Len(blocks) < BlockHandles /\ NewBlock
    \/ /\ Len(blocks) < BlockHandles
       /\ \E location \in BlockLocations, writeOffsetBytes \in WriteOffsets :
            NewBlockAtLocation(location, writeOffsetBytes)
    \/ \E h \in 1 .. Len(blocks) : blocks[h].held /\ Release(h)
    \/ \E h \in 1 .. Len(blocks) : ReleaseAppend(h)
    \/ /\ Len(writers) < BlockWriters
       /\ \E h \in 1 .. Len(blocks), sizeBytes \in 1 .. BlockBytes :
            \E data \in Strings(sizeBytes) :
                /\ blocks[h].held
                /\ HasSpace(h, sizeBytes)
                /\ Put(h, sizeBytes, data)
    \/ \E w \in 1 .. Len(writers), count \in 0 .. BlockBytes,
          fault \in FaultPairs : PutWrite(w, count, fault)
    \/ faults < MaxFaults /\ \E w \in 1 .. Len(writers) : PutSourceError(w)
    \/ \E w \in 1 .. Len(writers), fault \in FaultPairs : PutFlush(w, fault)
    \/ \E w \in 1 .. Len(writers) : PutRelease(w)

SpecBlock == InitBlock /\ [][NextBlock]_vars

\* The callers of SpecSpace exercise the cursor of one Block: they recover
\* the Block with every kind of cursor, ask HasSpace for sizes up to the
\* limit of int64, reserve space with Put with and without asking HasSpace
\* first, and run the writers of their Puts side by side, in chunks of every
\* size and with failures of the device and of the byte source.
NextSpace ==
    \/ Len(blocks) < SpaceHandles /\ NewBlock
    \/ /\ Len(blocks) < SpaceHandles
       /\ \E location \in BlockLocations, writeOffsetBytes \in WriteOffsets :
            NewBlockAtLocation(location, writeOffsetBytes)
    \/ \E h \in 1 .. Len(blocks), sizeBytes \in SpaceSizes :
            blocks[h].held /\ HasSpaceCall(h, sizeBytes)
    \/ \E h \in 1 .. Len(blocks) : blocks[h].held /\ Release(h)
    \/ \E h \in 1 .. Len(blocks) : ReleaseAppend(h)
    \/ /\ Len(writers) < SpaceWriters
       /\ \E h \in 1 .. Len(blocks), sizeBytes \in 0 .. MaxPutSize :
            /\ blocks[h].held
            /\ Put(h, sizeBytes, Data(Len(writers) + 1, sizeBytes))
    \/ \E w \in 1 .. Len(writers), count \in 1 .. MaxPutSize,
          fault \in FaultPairs : PutWrite(w, count, fault)
    \/ faults < MaxFaults /\ \E w \in 1 .. Len(writers) : PutSourceError(w)
    \/ \E w \in 1 .. Len(writers), fault \in FaultPairs : PutFlush(w, fault)
    \/ \E w \in 1 .. Len(writers) : PutRelease(w)

SpecSpace == InitBlock /\ [][NextSpace]_vars

\* The callers of SpecRace make the Puts on one Block without a lock around
\* phase 1, so that the two parts of phase 1 of different Puts interleave,
\* and run the writers side by side.
NextRace ==
    \/ Len(blocks) < RaceHandles /\ NewBlock
    \/ \E h \in 1 .. Len(blocks) : blocks[h].held /\ Release(h)
    \/ \E h \in 1 .. Len(blocks) : ReleaseAppend(h)
    \/ /\ Len(writers) < RaceWriters
       /\ \E h \in 1 .. Len(blocks), sizeBytes \in 0 .. MaxPutSize :
            /\ blocks[h].held
            /\ PutLoad(h, sizeBytes, Data(Len(writers) + 1, sizeBytes))
    \/ \E w \in 1 .. Len(writers), fresh \in BOOLEAN : PutStore(w, fresh)
    \/ \E w \in 1 .. Len(writers), count \in 1 .. MaxPutSize :
            PutWrite(w, count, NoFaults)
    \/ \E w \in 1 .. Len(writers) : PutFlush(w, NoFaults)
    \/ \E w \in 1 .. Len(writers) : PutRelease(w)

SpecRace == InitBlock /\ [][NextRace]_vars

\* The callers of SpecLive keep the reference-count contract: the owner of a
\* Block, the streams and the writers on it release their references when
\* they like, and one caller calls NewBlock again and again.
InitLive == InitWith(LiveBlockCount)

Retry == Len(blocks) < LiveHandles /\ NewBlock

NextLive ==
    \/ Retry
    \/ \E h \in 1 .. Len(blocks) : blocks[h].held /\ Release(h)
    \/ \E h \in 1 .. Len(blocks) : ReleaseAppend(h)
    \/ /\ Len(readers) < MaxReaders
       /\ \E h \in 1 .. Len(blocks) : blocks[h].held /\ Get(h, 0, 1)
    \/ \E r \in 1 .. Len(readers) : readers[r].pc = "open" /\ Close(r)
    \/ /\ Len(writers) < MaxWriters
       /\ \E h \in 1 .. Len(blocks) :
            /\ blocks[h].held /\ HasSpace(h, 1)
            /\ Put(h, 1, Data(Len(writers) + 1, 1))
    \/ \E w \in 1 .. Len(writers) : PutWrite(w, 1, NoFaults)
    \/ \E w \in 1 .. Len(writers) : PutFlush(w, NoFaults)
    \/ \E w \in 1 .. Len(writers) : PutRelease(w)

\* A call of Release that has taken the count to zero gets pa.lock and
\* returns; the caller of NewBlock does not give up.
SpecLive ==
    /\ InitLive
    /\ [][NextLive]_vars
    /\ WF_vars(Retry)
    /\ WF_vars(\E h \in 1 .. Len(blocks) : ReleaseAppend(h))

\* SpecCompleteness makes one Get on a CompletenessCheckingBlobAccess, for
\* every content of the two backends and every failure of them.
NextCompleteness == \E b \in Backends : CompletenessCheckingGet(b)

SpecCompleteness == InitBlock /\ [][NextCompleteness]_vars

\* The callers of SpecRegion create Blocks with NewBlock only, on a device of
\* DataBlockCount blocks, keep the reference-count contract, call Put(n)
\* only when HasSpace(n) holds, for every size that fits a block and for the
\* largest int64, make phase 1 in one step, and hand their writers exactly n
\* bytes, in chunks of a sector and a byte or all at once.
RegionSizes == (1 .. BlockBytes) \cup {MaxInt64}

NextRegion ==
    \/ Len(blocks) < RegionHandles /\ NewBlock
    \/ \E h \in 1 .. Len(blocks) : blocks[h].held /\ Release(h)
    \/ \E h \in 1 .. Len(blocks) : ReleaseAppend(h)
    \/ /\ Len(writers) < RegionWriters
       /\ \E h \in 1 .. Len(blocks), sizeBytes \in RegionSizes :
            /\ blocks[h].held
            /\ HasSpace(h, sizeBytes)
            /\ Put(h, sizeBytes, Data(Len(writers) + 1, sizeBytes))
    \/ \E w \in 1 .. Len(writers) :
        \E count \in {Min(SectorSizeBytes + 1, Len(writers[w].source)),
                      Len(writers[w].source)} :
            /\ writers[w].source # <<>>
            /\ PutWrite(w, count, <<NoFault, NoFault>>)
    \/ \E w \in 1 .. Len(writers) : PutFlush(w, <<NoFault, NoFault>>)
    \/ \E w \in 1 .. Len(writers) : PutRelease(w)

SpecRegion == InitData /\ [][NextRegion]_vars

\* The callers of SpecRecover recover the Blocks of a device of
\* DataBlockCount blocks with NewBlockAtLocation and every kind of
\* writeOffsetBytes: inside the block, at its end, behind it and at the limit
\* of int64.  They keep the reference-count contract and call Put only when
\* HasSpace holds.
RecoverOffsets == (0 .. BlockBytes + SectorSizeBytes) \cup {MaxInt64 - 1, MaxInt64}

NextRecover ==
    \/ /\ Len(blocks) < DataHandles
       /\ \E location \in BlockLocations, writeOffsetBytes \in RecoverOffsets :
            NewBlockAtLocation(location, writeOffsetBytes)
    \/ \E h \in 1 .. Len(blocks) : blocks[h].held /\ Release(h)
    \/ \E h \in 1 .. Len(blocks) : ReleaseAppend(h)
    \/ /\ Len(writers) < DataWriters
       /\ \E h \in 1 .. Len(blocks), sizeBytes \in PutSizes :
            /\ blocks[h].held
            /\ HasSpace(h, sizeBytes)
            /\ Put(h, sizeBytes, Data(Len(writers) + 1, sizeBytes))
    \/ \E w \in 1 .. Len(writers) :
            /\ writers[w].source # <<>>
            /\ PutWrite(w, Len(writers[w].source), <<NoFault, NoFault>>)
    \/ \E w \in 1 .. Len(writers) : PutFlush(w, <<NoFault, NoFault>>)
    \/ \E w \in 1 .. Len(writers) : PutRelease(w)

SpecRecover == InitData /\ [][NextRecover]_vars

\* SpecCert creates a certInfo, lets time pass and lets handshakes call the
\* two callbacks one after the other, as ci.mu makes them, while the files
\* hold every kind of content.
NextCert ==
    \/ \E load \in Loads, caCertFile \in BOOLEAN : newCertInfo(load, caCertFile)
    \/ \E load \in Loads, caCertFile \in BOOLEAN :
            getCertificate(load, caCertFile)
    \/ \E load \in Loads, caCertFile \in BOOLEAN :
            getClientCertificate(load, caCertFile)
    \/ TimePasses

SpecCert == InitBlock /\ [][NextCert]_vars

\* SpecAuth creates authenticators from every configuration and sends the
\* allow and deny authenticators every request.
NextAuth ==
    \/ \E configuration \in Policies :
            NewAuthenticatorFromConfiguration(configuration)
    \/ \E ctx \in Contexts : Authenticate(ctx)

SpecAuth == InitBlock /\ [][NextAuth]_vars

\* The numbers of blocks a BlockList holds or is configured to hold.
PolicyBlocks == 0 .. MaxPolicyBlocks

\* The callers of SpecPolicy create growing policies of both kinds and ask
\* them about every pair of block counts.
NextPolicy ==
    \/ \E currentBlocks, newBlocks \in PolicyBlocks :
            NewImmutableBlockListGrowingPolicy(currentBlocks, newBlocks)
    \/ \E currentBlocks \in PolicyBlocks :
            NewMutableBlockListGrowingPolicy(currentBlocks)
    \/ \E currentBlocks, newBlocks \in PolicyBlocks :
            ShouldGrowNewBlocks(currentBlocks, newBlocks)
    \/ \E currentBlocks \in PolicyBlocks :
            ShouldGrowCurrentBlocks(currentBlocks)

SpecPolicy == InitBlock /\ [][NextPolicy]_vars

\* SpecList creates a mutable policy with every target and runs the BlockList
\* of a map that uses it: the map starts with every number of old and current
\* Blocks and at most one new Block, tries to grow either kind in every
\* state, and rotates its Blocks in every order.
NextList ==
    \/ /\ policy = NoPolicy
       /\ \E currentBlocks \in PolicyBlocks :
            NewMutableBlockListGrowingPolicy(currentBlocks)
    \/ \E oldBlocks, currentBlocks \in PolicyBlocks, newBlocks \in 0 .. 1 :
            StartBlockList(oldBlocks, currentBlocks, newBlocks)
    \/ GrowNewBlocks
    \/ GrowCurrentBlocks
    \/ \E kind \in {"new", "current", "old"} :
            /\ blockList.oldBlocks <= MaxPolicyBlocks
            /\ blockList.currentBlocks <= MaxPolicyBlocks
            /\ Rotate(kind)

SpecList == InitBlock /\ [][NextList]_vars

\* SpecImmutableList does the same with an immutable policy of every pair of
\* desired current and new Blocks; its map starts with no more current and
\* new Blocks than the policy desires.
NextImmutableList ==
    \/ /\ policy = NoPolicy
       /\ \E currentBlocks, newBlocks \in PolicyBlocks :
            NewImmutableBlockListGrowingPolicy(currentBlocks, newBlocks)
    \/ \E oldBlocks, currentBlocks, newBlocks \in PolicyBlocks :
            StartBlockList(oldBlocks, currentBlocks, newBlocks)
    \/ GrowNewBlocks
    \/ GrowCurrentBlocks
    \/ \E kind \in {"new", "current", "old"} :
            /\ blockList.oldBlocks <= MaxPolicyBlocks
            /\ Rotate(kind)

SpecImmutableList == InitBlock /\ [][NextImmutableList]_vars

(* ------------------------- allocator properties ------------------------ *)

Handles == 1 .. Len(blocks)
Offset(h) == blocks[h].deviceOffsetSectors
Live(h) == blocks[h].usecount > 0
InFree(o) == SeqCount(freeOffsets, o)
LiveAt(o) == {h \in Handles : Offset(h) = o /\ Live(h)}
FreeingAt(o) == {h \in Handles : Offset(h) = o /\ blocks[h].freeing}
NoRefcountViolation == ~Broke("refcount")

\* Handle h has a Get stream that is not closed or a Put writer whose phase 2
\* has not finished.
Referenced(h) ==
    \/ \E r \in 1 .. Len(readers) :
            readers[r].block = h /\ readers[r].pc \in {"open", "releasing"}
    \/ \E w \in 1 .. Len(writers) :
            writers[w].block = h
                /\ writers[w].pc
                    \in {"reserving", "writing", "release", "releasing"}

\* C1 as stated: while the callers keep the reference-count contract, every
\* offset is either exactly once in the free list or held by exactly one
\* Block with a positive reference count.  It fails between the decrement of
\* Release that gives zero and the append to the free list.
C1_Partition ==
    NoRefcountViolation =>
        \A o \in AllOffsets : InFree(o) + Cardinality(LiveAt(o)) = 1

\* C1 as amended: while the callers keep the reference-count contract, every
\* offset is exactly one of: once in the free list, held by exactly one Block
\* with a positive count, or held by exactly one Block whose count a Release
\* has just brought to zero and that Release has not yet appended it.
C1_PartitionWithRelease ==
    NoRefcountViolation =>
        /\ \A o \in AllOffsets :
                InFree(o) + Cardinality(LiveAt(o)) + Cardinality(FreeingAt(o)) = 1
        /\ \A h \in Handles : blocks[h].freeing => blocks[h].usecount = 0
        /\ \A i \in 1 .. Len(freeOffsets) : freeOffsets[i] \in AllOffsets

\* An offset was released, appended and handed out again, and another offset
\* is free.
C1_Witness ==
    /\ NoRefcountViolation
    /\ releases >= 1
    /\ freeOffsets # <<>>
    /\ \E h1, h2 \in Handles :
            h1 < h2 /\ Offset(h1) = Offset(h2) /\ Live(h2) /\ ~Live(h1)

\* C2: while a Block has an open Get stream or an unfinished Put writer, its
\* offset is not in the free list and no later handle has been issued for it,
\* also after its owner has called Release.
C2_ReferencedNotReusable ==
    NoRefcountViolation =>
        \A h \in Handles : Referenced(h) =>
            /\ InFree(Offset(h)) = 0
            /\ \A h2 \in Handles : h2 > h => Offset(h2) # Offset(h)

\* The owner has released a Block that a stream still reads, and NewBlock has
\* since found the free list empty.
C2_Witness ==
    /\ NoRefcountViolation
    /\ ret.op = "NewBlock" /\ ~ret.ok
    /\ \E h \in Handles :
            /\ ~blocks[h].held
            /\ \E r \in 1 .. Len(readers) :
                    readers[r].block = h /\ readers[r].pc = "open"

\* C4: NewBlock fails iff the free list is empty when it is called; a failed
\* call returns no Block and no Location and leaves the free list and the
\* allocation counter alone; after blockCount allocations and no release the
\* call fails.
C4_NewBlockExhaustion ==
    [][ret'.op = "NewBlock" =>
            /\ ret'.ok <=> Len(freeOffsets) > 0
            /\ ~ret'.ok =>
                    /\ ret'.block = 0
                    /\ ret'.location = NoLocation
                    /\ UNCHANGED <<freeOffsets, blocks, allocations>>
            /\ (allocations = blockCount /\ releases = 0) => ~ret'.ok]_vars

\* NewBlock has failed after blockCount allocations and no release.
C4_Witness ==
    /\ ret.op = "NewBlock" /\ ~ret.ok
    /\ allocations = blockCount
    /\ releases = 0

Pos(s, x) == CHOOSE i \in 1 .. Len(s) : s[i] = x
Elems(s) == {s[i] : i \in 1 .. Len(s)}

\* The offsets in the free list that a Release has put there.
ReleasedFree == {o \in Elems(freeOffsets) : \E h \in Handles : Offset(h) = o}

\* C5: allocation is first-in first-out over the released offsets: when A is
\* released and then B, A is ahead of B in the free list until NewBlock pops
\* it.  Every step keeps the released offsets that stay in the free list in
\* the order in which they were released, puts an offset that enters behind
\* all that stay, and a successful NewBlock takes the head.  It fails when
\* NewBlockAtLocation removes an offset by moving the last one, the one
\* released most recently, into its place.
C5_Fifo ==
    [][/\ \A x, y \in ReleasedFree \cap Elems(freeOffsets') :
            Pos(freeOffsets, x) < Pos(freeOffsets, y)
                => Pos(freeOffsets', x) < Pos(freeOffsets', y)
       /\ \A x \in Elems(freeOffsets') \ Elems(freeOffsets) :
            \A y \in Elems(freeOffsets) \cap Elems(freeOffsets') :
                Pos(freeOffsets', y) < Pos(freeOffsets', x)
       /\ (ret'.op = "NewBlock" /\ ret'.ok) =>
            /\ ret'.location = getBlockLocationMessage(Head(freeOffsets))
            /\ freeOffsets' = Tail(freeOffsets)]_vars

\* C6: no offset is held through two handles at once, and directly after a
\* successful NewBlock or NewBlockAtLocation the offset it returned is not in
\* the free list, so that a second NewBlockAtLocation for the same location
\* finds nothing and NewBlock cannot return it.
C6_NoDoubleIssue ==
    /\ NoRefcountViolation =>
            \A h1, h2 \in Handles :
                (h1 # h2 /\ Offset(h1) = Offset(h2)) => ~(Live(h1) /\ Live(h2))
    /\ (ret.ok /\ ret.op \in {"NewBlock", "NewBlockAtLocation"}) =>
            /\ InFree(Offset(ret.block)) = 0
            /\ Matching(ret.location) = {}

\* NewBlockAtLocation has returned not-found for the location of a Block
\* that an earlier call has obtained and still holds.
C6_Witness ==
    /\ ret.op = "NewBlockAtLocation" /\ ~ret.ok
    /\ \E h \in Handles :
            /\ Live(h) /\ blocks[h].held
            /\ getBlockLocationMessage(Offset(h)) = ret.location

\* C7: NewBlockAtLocation succeeds iff the free list holds an offset o with
\* location = {o * sectorSize, blockSectorCount * sectorSize}; on success
\* that offset alone leaves the free list and the new Block is at it; on
\* not-found no Block is returned and free list and counters are unchanged.
C7_NewBlockAtLocation ==
    [][ret'.op = "NewBlockAtLocation" =>
        LET location == ret'.location
            found == {o \in Elems(freeOffsets) :
                        /\ location.offsetBytes = o * SectorSizeBytes
                        /\ location.sizeBytes
                                = BlockSectorCount * SectorSizeBytes}
        IN  /\ ret'.ok <=> found # {}
            /\ ret'.ok =>
                    /\ Elems(freeOffsets') = Elems(freeOffsets) \ found
                    /\ Len(freeOffsets') = Len(freeOffsets) - 1
                    /\ Cardinality(found) = 1
                    /\ blocks'[ret'.block].deviceOffsetSectors \in found
                    /\ allocations' = allocations + 1
            /\ ~ret'.ok =>
                    /\ ret'.block = 0
                    /\ UNCHANGED <<freeOffsets, blocks, allocations,
                                   releases, getsStarted, getsCompleted>>]_vars

\* NewBlockAtLocation has returned not-found for a location whose offset is
\* free but whose size is not the block size.
C7_Witness ==
    /\ ret.op = "NewBlockAtLocation" /\ ~ret.ok
    /\ ret.location.sizeBytes # BlockBytes
    /\ \E o \in Elems(freeOffsets) :
            ret.location.offsetBytes = o * SectorSizeBytes

\* C8: every Release decrements the count by one; when the result is zero
\* the call goes on to append the offset, once; when it is below zero the
\* call panics and appends nothing.
C8_Release ==
    [][\A h \in Handles :
        LET c == blocks'[h].usecount IN
        /\ c < blocks[h].usecount =>
                /\ c = blocks[h].usecount - 1
                /\ freeOffsets' = freeOffsets
                /\ c = 0 => (blocks'[h].freeing /\ ~blocks[h].freeing
                                /\ ~aborted')
                /\ c < 0 => (aborted' /\ blocks'[h].freeing = blocks[h].freeing)
                /\ c > 0 => (~aborted' /\ ~blocks'[h].freeing)
        /\ (blocks[h].freeing /\ ~blocks'[h].freeing) =>
                /\ freeOffsets' = Append(freeOffsets, Offset(h))
                /\ releases' = releases + 1
        /\ Len(freeOffsets') > Len(freeOffsets) =>
                \E g \in Handles : blocks[g].freeing /\ ~blocks'[g].freeing
        /\ aborted => UNCHANGED vars]_vars

\* A Release on a Block that was already released has panicked: the count is
\* below zero and the offset is in the free list once.
C8_Witness ==
    /\ aborted
    /\ \E h \in Handles :
            /\ blocks[h].usecount = -1
            /\ ~blocks[h].freeing
            /\ InFree(Offset(h)) = 1

\* C9: Get or Put on a handle whose count has reached zero panics: no stream
\* and no writer is created, the reads-started counter, the cursor, the
\* device and the free list are unchanged, and so is every other handle.
C9_StaleHandlePanics ==
    [][\A h \in Handles :
        (blocks[h].usecount <= 0
            /\ blocks'[h].usecount = blocks[h].usecount + 1) =>
                /\ aborted'
                /\ UNCHANGED <<readers, writers, getsStarted, device,
                               freeOffsets, allocations>>
                /\ blocks'[h].writeOffsetSectors
                        = blocks[h].writeOffsetSectors
                /\ \A g \in Handles : g # h => blocks'[g] = blocks[g]]_vars

\* Get or Put on a released handle has panicked after the offset was issued
\* to a new handle, which a Put has written through.
C9_Witness ==
    /\ aborted
    /\ \E h, g \in Handles :
            /\ h < g /\ Offset(h) = Offset(g)
            /\ blocks[h].usecount = 1 /\ ~blocks[h].held
            /\ ~Referenced(h)
            /\ blocks[g].usecount >= 1 /\ blocks[g].held
            /\ blocks[g].writeOffsetSectors > 0

\* C10: while the callers keep the reference-count contract, the count of a
\* Block is one for its owner, one for every stream that Get returned and
\* Close has not released, and one for every writer that has not released:
\* Get adds one, the first Close takes it back, a second Close takes nothing.
C10_StreamOwnsOneReference ==
    NoRefcountViolation =>
        \A h \in Handles :
            blocks[h].usecount =
                (IF blocks[h].held THEN 1 ELSE 0)
                + Cardinality({r \in 1 .. Len(readers) :
                        readers[r].block = h /\ readers[r].pc = "open"})
                + Cardinality({w \in 1 .. Len(writers) :
                        writers[w].block = h
                            /\ writers[w].pc
                                \in {"reserving", "writing", "release"}})

\* A stream was closed and then closed again, which panicked; its Block is
\* still held by its owner alone.
C10_Witness ==
    /\ NoRefcountViolation
    /\ aborted
    /\ getsStarted = 1 /\ getsCompleted = 1
    /\ \E h \in Handles : blocks[h].held /\ blocks[h].usecount = 1

(* ------------------------- data path properties ------------------------ *)

\* Writer w was handed exactly the bytes its Put declared and its finalizer
\* has returned without error.
Completed(w) ==
    /\ writers[w].pc = "done"
    /\ ~writers[w].err
    /\ Len(writers[w].data) = writers[w].sizeBytes

\* The bytes the stream r delivers.
StreamBytes(r) == ReadAt(device, readers[r].offsetBytes, readers[r].sizeBytes)

\* Stream r was returned by Get(off, n) on the Block of writer w, for the
\* offset off that the finalizer of w returned and the size n of its Put.
ReadsBack(r, w) ==
    /\ readers[r].pc = "open"
    /\ readers[r].block = writers[w].block
    /\ readers[r].sizeBytes = writers[w].sizeBytes
    /\ readers[r].offsetBytes =
            Offset(writers[w].block) * SectorSizeBytes
                + writers[w].writeOffsetSectors * SectorSizeBytes

\* C3: while the callers call Put only when HasSpace holds, a Get for the
\* range of a completed Put delivers exactly the bytes that Put was handed,
\* whatever other Puts were made before or after.
C3_RoundTrip ==
    ~Broke("space") =>
        \A r \in 1 .. Len(readers), w \in 1 .. Len(writers) :
            (Completed(w) /\ ReadsBack(r, w)) =>
                StreamBytes(r) = writers[w].data

\* A stream reads back a completed Put that ended in a padded sector, after
\* another Put to the same Block has completed as well.
C3_Witness ==
    /\ ~Broke("space")
    /\ \E r \in 1 .. Len(readers), w, v \in 1 .. Len(writers) :
            /\ Completed(w) /\ ReadsBack(r, w)
            /\ writers[w].sizeBytes % SectorSizeBytes # 0
            /\ v # w /\ Completed(v) /\ writers[v].block = writers[w].block
            /\ StreamBytes(r) = writers[w].data

\* Writer w holds the reference that phase 1 of its Put took.
HoldsReference(w) == writers[w].pc \in {"reserving", "writing", "release"}

\* C11: the step that creates a writer adds one to the count of its Block;
\* a writer gives its reference back in one step that takes exactly one from
\* the count, whether its write succeeded, the byte source or the device
\* failed during the write, or the flush failed; no other step of a writer
\* changes the count, and a writer that has given its reference back never
\* holds one again.
C11_PutReleasesOnce ==
    [][/\ Len(writers') >= Len(writers)
       /\ \A w \in 1 .. Len(writers') :
            LET h == writers'[w].block IN
            IF w > Len(writers)
            THEN /\ blocks'[h].usecount = blocks[h].usecount + 1
                 /\ writers'[w].pc = "writing"
            ELSE /\ writers'[w].block = writers[w].block
                 /\ (HoldsReference(w) /\ ~HoldsReference(w)') =>
                        /\ blocks'[h].usecount = blocks[h].usecount - 1
                        /\ writers'[w].pc \in {"releasing", "done"}
                 /\ (HoldsReference(w)' /\ writers'[w] # writers[w]) =>
                        /\ HoldsReference(w)
                        /\ blocks'[h].usecount = blocks[h].usecount
                 /\ (~HoldsReference(w) /\ writers'[w] # writers[w]) =>
                        /\ writers[w].pc = "releasing"
                        /\ writers'[w].pc = "done"
                        /\ blocks'[h].usecount = blocks[h].usecount]_vars

\* Two writers of one Block have run, one whose byte source or device failed
\* and one whose write succeeded, and the count is back at the one reference
\* of the owner.
C11_Witness ==
    \E h \in Handles, w, v \in 1 .. Len(writers) :
        /\ writers[w].block = h /\ writers[v].block = h
        /\ writers[w].pc = "done" /\ writers[w].err
        /\ writers[v].pc = "done" /\ ~writers[v].err
        /\ blocks[h].held /\ blocks[h].usecount = 1

(* --------------------------- Block properties -------------------------- *)

\* The number of sectors that sizeBytes bytes take.
SectorsFor(sizeBytes) == (sizeBytes + SectorSizeBytes - 1) \div SectorSizeBytes

\* C12: HasSpace(n) returns true iff the sectors that n bytes take are at
\* most blockSectorCount less the cursor, for every n >= 0, and the call
\* changes neither the Block, the free list nor a counter.  It fails for the
\* sizes within sectorSizeBytes - 1 of the largest int64, for which the sum
\* in toSectors wraps around.
C12_HasSpace ==
    [][ret'.op = "HasSpace" =>
            /\ ret'.ok <=>
                    SectorsFor(ret'.sizeBytes)
                        <= BlockSectorCount
                            - blocks[ret'.block].writeOffsetSectors
            /\ UNCHANGED <<freeOffsets, blocks, readers, writers, device,
                           allocations, releases, getsStarted,
                           getsCompleted>>]_vars

\* The sectors of its Block that the Put of writer w has reserved, and the
\* first byte of the device behind them.
ReservedSectors(w) ==
    writers[w].writeOffsetSectors ..
        writers[w].writeOffsetSectors + SectorsFor(writers[w].sizeBytes) - 1
ReservedFrom(w) ==
    (Offset(writers[w].block) + writers[w].writeOffsetSectors)
        * SectorSizeBytes
ReservedUpTo(w) ==
    ReservedFrom(w) + SectorsFor(writers[w].sizeBytes) * SectorSizeBytes

\* The ranges that the Puts on each Block have reserved are pairwise
\* disjoint.
DisjointReservations ==
    \A w, v \in 1 .. Len(writers) :
        (w # v /\ writers[w].block = writers[v].block) =>
            ReservedSectors(w) \cap ReservedSectors(v) = {}

\* C13: with the phase 1 calls made one at a time, a Put of n bytes reserves
\* the sectors from the cursor c before the call up to c + ceil(n /
\* sectorSize) and moves the cursor there; the ranges of the Puts on one
\* Block are pairwise disjoint; the offset c * sectorSize that the finalizer
\* returns never changes; and every device write of a writer, in whatever
\* order the writers run, lies inside the range of its own Put.
C13_SerializedPutsReserveDisjointRanges ==
    [][/\ \A w \in 1 .. Len(writers') :
            LET h == writers'[w].block IN
            IF w > Len(writers)
            THEN /\ writers'[w].writeOffsetSectors
                        = blocks[h].writeOffsetSectors
                 /\ blocks'[h].writeOffsetSectors
                        = blocks[h].writeOffsetSectors
                            + SectorsFor(writers'[w].sizeBytes)
            ELSE /\ writers'[w].writeOffsetSectors
                        = writers[w].writeOffsetSectors
                 /\ writers'[w].sizeBytes = writers[w].sizeBytes
       /\ DisjointReservations'
       /\ ret'.op \in {"Write", "flush"} =>
            \A i \in 1 .. Len(ret'.calls) :
                /\ ReservedFrom(ret'.writer) <= ret'.calls[i].off
                /\ ret'.calls[i].off + ret'.calls[i].len
                        <= ReservedUpTo(ret'.writer)]_vars

\* The writer of the second Put on a Block has finished while the writer of
\* the first, whose range lies right before, is halfway through its bytes.
C13_Witness ==
    \E w, v \in 1 .. Len(writers) :
        /\ w < v /\ writers[w].block = writers[v].block
        /\ writers[v].pc = "done" /\ ~writers[v].err
        /\ writers[v].sizeBytes > 0
        /\ writers[v].writeOffsetSectors
                = writers[w].writeOffsetSectors + SectorsFor(writers[w].sizeBytes)
        /\ writers[w].pc = "writing"
        /\ writers[w].source # <<>> /\ writers[w].source # writers[w].data

\* The Puts on handle h that have finished phase 1, and the sectors that the
\* first k writers among them have reserved, added up.
PastPhase1(w, h) ==
    writers[w].block = h /\ writers[w].pc # "reserving"

RECURSIVE ReservedSum(_, _)
ReservedSum(h, k) ==
    IF k = 0 THEN 0
    ELSE ReservedSum(h, k - 1)
            + (IF PastPhase1(k, h) THEN SectorsFor(writers[k].sizeBytes)
               ELSE 0)

\* The ranges of the Puts on each Block are pairwise disjoint, and the cursor
\* of a Block that started at 0 is the sum of the sector counts of the Puts
\* that have finished phase 1.
ReservationsAddUp ==
    /\ DisjointReservations
    /\ \A h \in Handles :
            blocks[h].writeOffsetSectors = ReservedSum(h, Len(writers))

\* C14 as stated: Puts that run concurrently on a Block, phase 1 included,
\* never get overlapping ranges, and after k Puts have finished phase 1 the
\* cursor has advanced by the sum of their sector counts.
C14_ConcurrentPutsNeverOverlap ==
    ReservationsAddUp

\* C14 as the code has it: when the callers make the phase 1 calls on a Block
\* one at a time, Puts whose writers run concurrently never get overlapping
\* ranges, and after k Puts have finished phase 1 the cursor has advanced by
\* the sum of their sector counts.
C14_SerializedPhase1NeverOverlaps ==
    ~Broke("serial") => ReservationsAddUp

\* Two Puts of data on one Block, phase 1 made one at a time, have their
\* writers running side by side, both halfway through their bytes.
C14_Witness ==
    /\ ~Broke("serial")
    /\ \E w, v \in 1 .. Len(writers) :
            /\ w < v /\ writers[w].block = writers[v].block
            /\ writers[w].pc = "writing" /\ writers[v].pc = "writing"
            /\ writers[w].source # <<>> /\ writers[w].source # writers[w].data
            /\ writers[v].source # <<>> /\ writers[v].source # writers[v].data

(* ------------------------ sector writer properties --------------------- *)

\* The writer of Put w has got all the data and its flush has succeeded.
Flushed(w) ==
    /\ writers[w].pc \in {"release", "releasing", "done"}
    /\ ~writers[w].err
    /\ writers[w].source = <<>>

\* The data of Put w followed by zeroes up to the next sector boundary.
ZeroPadded(w) ==
    writers[w].data \o
        [i \in 1 .. SectorsFor(writers[w].sizeBytes) * SectorSizeBytes
                        - writers[w].sizeBytes |-> 0]

\* The device after one call of Write with all the data of Put w and a call
\* of flush, made by a new writer at the place of Put w on a device that has
\* not been written.
WholeWrite(w) ==
    LET blank == [i \in 1 .. DeviceBytes |-> Stale]
        one == Write(<<>>, Offset(writers[w].block)
                                + writers[w].writeOffsetSectors,
                     blank, writers[w].data, NoFault, NoFault)
    IN  flush(one.partialSector, one.offset, one.device, NoFault).device

\* C15: however the data of a Put was split into calls of Write, empty ones
\* included, after the flush the sectors of the Put hold what one Write of
\* all the data and a flush leave there: the data followed by zeroes up to
\* the next sector boundary.
C15_SectorWriterEquivalence ==
    \A w \in 1 .. Len(writers) :
        Flushed(w) =>
            \A i \in 1 .. ReservedUpTo(w) - ReservedFrom(w) :
                /\ device[ReservedFrom(w) + i] = WholeWrite(w)[ReservedFrom(w) + i]
                /\ device[ReservedFrom(w) + i] = ZeroPadded(w)[i]

\* A Put of one sector and one byte, handed to Write in parts, has been
\* flushed, and the flush has written the padded last sector.
C15_Witness ==
    \E w \in 1 .. Len(writers) :
        /\ Flushed(w) /\ writers[w].split
        /\ writers[w].sizeBytes = SectorSizeBytes + 1
        /\ ret.op = "flush" /\ ret.writer = w /\ Len(ret.calls) = 1

\* The bytes of the device that the calls of WriteAt in `calls` cover.
Covered(calls) ==
    {i \in 1 .. DeviceBytes :
        \E k \in 1 .. Len(calls) :
            i > calls[k].off /\ i <= calls[k].off + calls[k].len}

\* C16: every WriteAt that a call of Write or of flush issues starts at a
\* multiple of sectorSize and has a length that is a multiple of sectorSize
\* (zero for a Write without a whole sector); the first one starts where the
\* writer stands, each next one where the one before ended, and a writer
\* that may write again stands where the last one ended, so that no sector
\* is written twice; the device changes nowhere else, and what is written
\* is computed from the partial sector and the bytes handed over alone.
C16_AlignedConsecutiveWrites ==
    [][ret'.op \in {"Write", "flush"} =>
        LET w == ret'.writer
            calls == ret'.calls
            from == writers[w].offset * SectorSizeBytes
            upTo == IF calls = <<>> THEN from
                    ELSE calls[Len(calls)].off + calls[Len(calls)].len
            blank == [i \in 1 .. DeviceBytes |-> Stale]
            handed == SubSeq(writers[w].source, 1,
                             Len(writers[w].source) - Len(writers'[w].source))
            alone == IF ret'.op = "Write"
                     THEN Write(writers[w].partialSector, writers[w].offset,
                                blank, handed, NoFault, NoFault).device
                     ELSE flush(writers[w].partialSector, writers[w].offset,
                                blank, NoFault).device
        IN  /\ \A k \in 1 .. Len(calls) :
                /\ calls[k].off % SectorSizeBytes = 0
                /\ calls[k].len % SectorSizeBytes = 0
                /\ calls[k].off = IF k = 1 THEN from
                                  ELSE calls[k - 1].off + calls[k - 1].len
                /\ calls[k].err => k = Len(calls)
            /\ writers'[w].pc = "writing" =>
                    writers'[w].offset * SectorSizeBytes = upTo
            /\ \A i \in 1 .. DeviceBytes :
                    IF i \in Covered(calls)
                    THEN ret'.ok => device'[i] = alone[i]
                    ELSE device'[i] = device[i]]_vars

\* A call of Write has completed a partial sector, written it, and written
\* the whole sector that followed with a second call of WriteAt.
C16_Witness ==
    /\ ret.op = "Write" /\ ret.ok
    /\ Len(ret.calls) = 2
    /\ ret.calls[1].len = SectorSizeBytes
    /\ ret.calls[2].len = SectorSizeBytes

\* C17: a flush that succeeds after the writer has got n bytes writes
\* nothing when n is a multiple of sectorSize; else it writes one sector, the
\* one the writer stands at, that holds the n % sectorSize bytes of the
\* partial sector followed by zeroes, whatever the device held there.
C17_FlushPadsWithZeroes ==
    [][(ret'.op = "flush" /\ ret'.ok) =>
        LET w == ret'.writer
            pending == writers[w].partialSector
            from == writers[w].offset * SectorSizeBytes
        IN  /\ Len(pending) = writers[w].sizeBytes % SectorSizeBytes
            /\ IF Len(pending) = 0
               THEN ret'.calls = <<>> /\ device' = device
               ELSE /\ ret'.calls = <<[off |-> from, len |-> SectorSizeBytes,
                                       err |-> FALSE]>>
                    /\ \A i \in 1 .. SectorSizeBytes :
                            device'[from + i] = IF i <= Len(pending)
                                                THEN pending[i] ELSE 0]_vars

\* The flush of a Put of one byte, placed in the second sector of a Block
\* that was recovered, has put a zero after the byte.
C17_Witness ==
    /\ ret.op = "flush" /\ ret.ok
    /\ writers[ret.writer].sizeBytes = 1
    /\ writers[ret.writer].writeOffsetSectors = 1
    /\ device[ReservedFrom(ret.writer) + 2] = 0

(* ----------------------- growing policy properties -------------------- *)

\* C18: the immutable policy with target T answers ShouldGrowNewBlocks(c, n)
\* with c + n < T and ShouldGrowCurrentBlocks(c) with false, for all block
\* counts c and n.
C18_ImmutablePolicy ==
    policy.kind = "immutable" =>
        /\ ret.op = "ShouldGrowNewBlocks" =>
                (ret.ok <=> ret.currentBlocks + ret.newBlocks < policy.desired)
        /\ ret.op = "ShouldGrowCurrentBlocks" => ~ret.ok

\* The immutable policy with target 5 has answered ShouldGrowNewBlocks(3, 1)
\* with true.
C18_Witness ==
    /\ policy = [kind |-> "immutable", desired |-> 5]
    /\ ret.op = "ShouldGrowNewBlocks"
    /\ ret.currentBlocks = 3 /\ ret.newBlocks = 1 /\ ret.ok

\* C19: the mutable policy with target T answers ShouldGrowNewBlocks(c, n)
\* with n < 1, whatever c and T, and ShouldGrowCurrentBlocks(c) with c < T,
\* for all block counts c and n.
C19_MutablePolicy ==
    policy.kind = "mutable" =>
        /\ ret.op = "ShouldGrowNewBlocks" => (ret.ok <=> ret.newBlocks < 1)
        /\ ret.op = "ShouldGrowCurrentBlocks" =>
                (ret.ok <=> ret.currentBlocks < policy.desired)

\* The mutable policy with target 4 has answered ShouldGrowCurrentBlocks(2)
\* with true.
C19_Witness ==
    /\ policy = [kind |-> "mutable", desired |-> 4]
    /\ ret.op = "ShouldGrowCurrentBlocks"
    /\ ret.currentBlocks = 2 /\ ret.ok

(* ------------------------- device write failures ----------------------- *)

\* The device write of Put w has failed.
DeviceFailed(w) == writers[w].err /\ writers[w].cause = "device"

\* C20: a call of Write or of flush fails exactly when a WriteAt it issued
\* has failed; that WriteAt is the last one it issues, the error becomes the
\* error of the Put, and pb.Release() is next.  A Put that has an error
\* keeps it together with its offset until the finalizer returns them, and
\* issues no device write any more.  The cursor of a Block never goes back,
\* and a Put that is made on the Block later is placed behind the sectors of
\* the Put that failed.
C20_DeviceWriteFailure ==
    [][/\ ret'.op \in {"Write", "flush"} =>
            LET w == ret'.writer
                calls == ret'.calls
                failed == \E k \in 1 .. Len(calls) : calls[k].err
            IN  /\ failed <=> ~ret'.ok
                /\ \A k \in 1 .. Len(calls) : calls[k].err => k = Len(calls)
                /\ ~writers[w].err
                /\ failed => /\ writers'[w].err
                             /\ writers'[w].cause = "device"
                             /\ writers'[w].pc = "release"
       /\ \A w \in 1 .. Len(writers) :
            writers[w].err =>
                /\ writers'[w].err
                /\ writers'[w].cause = writers[w].cause
                /\ writers'[w].writeOffsetSectors
                        = writers[w].writeOffsetSectors
                /\ writers'[w].pc # "writing"
       /\ \A h \in 1 .. Len(blocks) :
            blocks'[h].writeOffsetSectors >= blocks[h].writeOffsetSectors
       /\ \A v \in Len(writers) + 1 .. Len(writers') :
            \A w \in 1 .. Len(writers) :
                (DeviceFailed(w) /\ writers[w].block = writers'[v].block) =>
                    writers'[v].writeOffsetSectors
                        >= writers[w].writeOffsetSectors
                            + SectorsFor(writers[w].sizeBytes)]_vars

\* The device write of the first Put on a Block has failed and its finalizer
\* has returned; the second Put on the Block, which has not written yet, is
\* placed right behind the sectors of the first.
C20_Witness ==
    \E w, v \in 1 .. Len(writers) :
        /\ w < v /\ writers[w].block = writers[v].block
        /\ DeviceFailed(w) /\ writers[w].pc = "done"
        /\ writers[w].sizeBytes > 0
        /\ writers[v].pc = "writing" /\ writers[v].source = writers[v].data
        /\ writers[v].writeOffsetSectors
                = writers[w].writeOffsetSectors
                    + SectorsFor(writers[w].sizeBytes)

(* ------------------------------ recovery ------------------------------- *)

\* The last call of NewBlock has failed, resp. succeeded.
NewBlockFailed == ret.op = "NewBlock" /\ ~ret.ok
NewBlockSucceeded == ret.op = "NewBlock" /\ ret.ok

\* The holders of a Block have released all their references: its count has
\* reached zero and its offset is in the free list or on its way there.
FullyReleased ==
    \/ freeOffsets # <<>>
    \/ \E h \in Handles : blocks[h].freeing

\* C21: whenever NewBlock has failed for want of a free offset and the
\* holders of a Block later release all their references, the caller that
\* keeps calling NewBlock gets a Block in the end; and a NewBlock that
\* succeeds after all offsets were handed out returns the offset of a Block
\* that was released to the last reference, the least recently released one
\* in the free list, with cursor 0.
C21_ExhaustionIsRecoverable ==
    /\ [](NewBlockFailed => (<>FullyReleased => <>NewBlockSucceeded))
    /\ [][(ret'.op = "NewBlock" /\ ret'.ok /\ allocations >= blockCount) =>
            LET n == blocks'[ret'.block] IN
            /\ n.deviceOffsetSectors = freeOffsets[1]
            /\ n.writeOffsetSectors = 0
            /\ \E h \in Handles :
                    /\ Offset(h) = n.deviceOffsetSectors
                    /\ blocks[h].usecount = 0 /\ ~blocks[h].freeing
            /\ ~\E h \in Handles :
                    /\ Offset(h) = n.deviceOffsetSectors
                    /\ blocks[h].usecount > 0]_vars

\* All offsets were handed out, a Block that a stream had kept alive after
\* its owner was released to the last reference, and NewBlock has returned
\* its offset.
C21_Witness ==
    /\ NewBlockSucceeded
    /\ allocations = blockCount + 1
    /\ freeOffsets = <<>>
    /\ getsCompleted = 1
    /\ \E h \in Handles :
            /\ h < ret.block
            /\ Offset(h) = Offset(ret.block)
            /\ blocks[h].usecount = 0
            /\ \E r \in 1 .. Len(readers) : readers[r] = ClosedReader

(* ------------------------- allocator properties ------------------------ *)

\* The Location of the block that starts at sector o of the device.
LocationOf(o) ==
    [offsetBytes |-> o * SectorSizeBytes,
     sizeBytes |-> BlockSectorCount * SectorSizeBytes]

\* C22: NewBlock returns, with the Block at offset o, the Location
\* {o * sectorSize, blockSectorCount * sectorSize}, which no other offset
\* has; and NewBlockAtLocation with the Location of an offset that is in the
\* free list succeeds with a Block at exactly that offset, and takes one
\* entry, of that offset, out of the free list.
C22_LocationRoundTrip ==
    [][/\ (ret'.op = "NewBlock" /\ ret'.ok) =>
            /\ ret'.location = LocationOf(blocks'[ret'.block].deviceOffsetSectors)
            /\ \A o \in AllOffsets :
                    LocationOf(o) = ret'.location
                        => o = blocks'[ret'.block].deviceOffsetSectors
       /\ \A o \in AllOffsets :
            (/\ ret'.op = "NewBlockAtLocation"
             /\ ret'.location = LocationOf(o)
             /\ InFree(o) > 0) =>
                /\ ret'.ok
                /\ ret'.block = Len(blocks) + 1
                /\ blocks'[ret'.block].deviceOffsetSectors = o
                /\ SeqCount(freeOffsets', o) = InFree(o) - 1
                /\ Len(freeOffsets') = Len(freeOffsets) - 1]_vars

\* NewBlockAtLocation has attached a Block to an offset other than the first
\* that an earlier Block, got from NewBlock and released since, had held.
C22_Witness ==
    /\ ret.op = "NewBlockAtLocation" /\ ret.ok
    /\ Offset(ret.block) > 0
    /\ ret.location = LocationOf(Offset(ret.block))
    /\ \E h \in Handles :
            /\ h < ret.block
            /\ Offset(h) = Offset(ret.block)
            /\ blocks[h].writeOffsetSectors = 0
            /\ blocks[h].usecount = 0

\* C23: as long as no Block has been released to the free list, a NewBlock
\* that succeeds right after a NewBlock that succeeded returns a higher
\* offset than that one, whatever calls of NewBlockAtLocation were made
\* before.
C23_InitiallyIncreasingOffsets ==
    [][(/\ ret.op = "NewBlock" /\ ret.ok
        /\ ret'.op = "NewBlock" /\ ret'.ok
        /\ ret'.block = Len(blocks) + 1
        /\ releases' = 0
        /\ \A h \in Handles : blocks[h].usecount > 0) =>
            blocks'[ret'.block].deviceOffsetSectors
                > blocks[ret.block].deviceOffsetSectors]_vars

(* ------------------- completeness checking properties ------------------ *)

\* The elements of a sequence.
Range(ds) == {ds[i] : i \in 1 .. Len(ds)}

\* The digests that the ActionResult of backends b refers to: its output
\* files, stdout and stderr, its Tree digests, and the files of the Trees.
ReferencedDigests(b) ==
    Range(b.actionResult.files) \cup Range(b.actionResult.trees)
        \cup (IF b.actionResult.trees = <<>> THEN {}
              ELSE Range(b.tree.files))

\* C24: Get returns the ActionResult, unchanged, only if the action cache
\* has returned it, every digest it refers to (the directory digests inside
\* a Tree aside) is well-formed and present, and no call has failed, and it
\* does so whenever no call can fail; a result of NotFound means that a
\* digest is malformed or missing; an error of the action cache comes back
\* as it is, and an error of FindMissing or of fetching a Tree is an error.
C24_CompletenessChecking ==
    ret.op = "CompletenessCheckingGet" =>
        LET b == ret.backends
            complete == /\ Malformed \notin ReferencedDigests(b)
                        /\ ReferencedDigests(b) \subseteq b.present
        IN  /\ ret.ok <=> ret.outcome = "ok"
            /\ ret.ok => /\ ret.result = b.actionResult
                         /\ ~b.acError /\ complete
                         /\ b.actionResult.trees # <<>> => ~b.treeError
                         /\ b.findMissingError \notin 1 .. ret.calls
            /\ b.acError <=> ret.outcome = "ActionCacheError"
            /\ (~b.acError /\ ~complete) => ~ret.ok
            /\ (/\ ~b.acError /\ complete /\ ~b.treeError
                /\ b.findMissingError = 0) => ret.ok
            /\ ret.outcome = "NotFound" => ~complete
            /\ ret.outcome = "FindMissingError" =>
                    b.findMissingError = ret.calls
            /\ ret.outcome = "GetTreeError" =>
                    b.treeError /\ b.actionResult.trees # <<>>

\* An ActionResult with two output files and an output directory, whose
\* Tree has a file and a directory that the Content Addressable Storage need
\* not hold, has been returned after two FindMissing calls.
C24_Witness ==
    /\ ret.op = "CompletenessCheckingGet" /\ ret.ok
    /\ Len(ret.backends.actionResult.files) = 2
    /\ Len(ret.backends.actionResult.trees) = 1
    /\ Len(ret.backends.tree.files) = 1
    /\ Len(ret.backends.tree.directories) = 1
    /\ ret.calls = 2

(* ------------------------ authenticator properties --------------------- *)

Underrun(w) == Len(writers[w].data) < writers[w].sizeBytes

\* The bytes of the range of Put w, counted from its start, that lie on the
\* device.
ReservedBytes(w) ==
    {i \in 1 .. ReservedUpTo(w) - ReservedFrom(w) :
        ReservedFrom(w) + i <= DeviceBytes}

\* C26: after the flush of a Put whose buffer has delivered fewer bytes than
\* declared, every byte of the sectors the Put has reserved that lies beyond
\* the bytes delivered is zero, in the sectors that got no byte too.
C26_UnderrunLeavesZeroes ==
    \A w \in 1 .. Len(writers) :
        (Flushed(w) /\ Underrun(w) /\ ~Broke("space")) =>
            \A i \in ReservedBytes(w) :
                i > Len(writers[w].data) => device[ReservedFrom(w) + i] = 0

\* C26 as the code has it: the flush of a Put whose buffer has delivered
\* fewer bytes than declared leaves zeroes after the bytes delivered up to
\* the end of the sector that the last of them lies in, and no call of Write
\* or flush of that Put changes a byte of the reserved sectors behind it:
\* the sectors that got no byte keep what the device held.
C26_UnderrunPadsLastSectorOnly ==
    [][(ret'.op \in {"Write", "flush"} /\ Underrun(ret'.writer)
            /\ ~Broke("space")) =>
        LET w == ret'.writer
            got == Len(writers[w].data)
            padded == SectorsFor(got) * SectorSizeBytes
        IN  /\ \A i \in ReservedBytes(w) :
                    i > padded =>
                        device'[ReservedFrom(w) + i] = device[ReservedFrom(w) + i]
            /\ (ret'.op = "flush" /\ ret'.ok) =>
                    \A i \in ReservedBytes(w) :
                        (i > got /\ i <= padded) =>
                            device'[ReservedFrom(w) + i] = 0]_vars

\* A Put of one sector and a byte whose buffer has delivered the bytes of
\* the first sector only has been flushed: the flush has written nothing,
\* and the second sector that the Put has reserved holds what the device
\* held before.
C26_Witness ==
    /\ ret.op = "flush" /\ ret.ok /\ ret.calls = <<>>
    /\ writers[ret.writer].sizeBytes = SectorSizeBytes + 1
    /\ Len(writers[ret.writer].data) = SectorSizeBytes
    /\ ~Broke("space")
    /\ device[ReservedFrom(ret.writer) + SectorSizeBytes] # Stale
    /\ device[ReservedFrom(ret.writer) + SectorSizeBytes + 1] = Stale

(* ---------------------------- region properties ----------------------- *)

\* The bytes of the device that the region of the Block with handle h spans:
\* those behind RegionFrom(h) up to RegionUpTo(h).
RegionFrom(h) == Offset(h) * SectorSizeBytes
RegionUpTo(h) == (Offset(h) + BlockSectorCount) * SectorSizeBytes

\* C27: for Blocks from NewBlock whose Puts are all made after HasSpace has
\* returned true for their size, with phase 1 serialized and buffers of the
\* declared size, the cursor of a Block never exceeds blockSectorCount and
\* every WriteAt made for a Block lies inside the region of that Block, so
\* that the writes for two Blocks that are live never meet.
C27_GuardedPutsStayInRegion ==
    /\ [](\A h \in Handles :
            blocks[h].writeOffsetSectors <= BlockSectorCount)
    /\ [][ret'.op \in {"Write", "flush"} =>
            \A k \in 1 .. Len(ret'.calls) :
                ret'.calls[k].len > 0 =>
                    /\ ret'.calls[k].off >= RegionFrom(ret'.block)
                    /\ ret'.calls[k].off + ret'.calls[k].len
                            <= RegionUpTo(ret'.block)]_vars

(* --------------------------- recovery properties ----------------------- *)

\* The step is a successful NewBlockAtLocation(location, w).
Recovers == ret'.op = "NewBlockAtLocation" /\ ret'.ok

\* The step is the Put that follows a successful NewBlockAtLocation on the
\* Block that call has returned.
PutsAfterRecovery ==
    /\ ret.op = "NewBlockAtLocation" /\ ret.ok
    /\ Len(writers') = Len(writers) + 1
    /\ writers'[Len(writers')].block = ret.block

\* The Put that the step makes starts at the first sector boundary of its
\* Block at or behind byte w.
PlacedBehind(w) ==
    LET from == writers'[Len(writers')].writeOffsetSectors * SectorSizeBytes
    IN  from >= w /\ from < w + SectorSizeBytes

C29_NewBlockStartsFresh ==
    [][(ret'.op = "NewBlock" /\ ret'.ok) =>
            /\ ret'.block = Len(blocks) + 1
            /\ blocks'[ret'.block].usecount = 1
            /\ blocks'[ret'.block].writeOffsetSectors = 0
            /\ blocks'[ret'.block].deviceOffsetSectors = freeOffsets[1]
            /\ \A h \in Handles : blocks'[h] = blocks[h]]_vars

\* NewBlock has returned a Block at an offset that an earlier handle, whose
\* cursor is behind the start of the block, has held and given back.
C29_Witness ==
    /\ ret.op = "NewBlock" /\ ret.ok
    /\ blocks[ret.block].writeOffsetSectors = 0
    /\ \E h \in Handles :
            /\ h < ret.block
            /\ Offset(h) = Offset(ret.block)
            /\ blocks[h].writeOffsetSectors > 0
            /\ blocks[h].usecount = 0

(* --------------------------- block list properties -------------------- *)

\* C30: the BlockList of a map that uses a mutable policy with target T,
\* starts with at most one new Block and grows only when the policy says so
\* never holds more than one new Block, and a step that grows the current
\* Blocks never leaves more than T of them, however the Blocks rotate.
C30_MutablePolicyBoundsBlockList ==
    /\ [](blockList.newBlocks <= 1)
    /\ [][(blockList'.newBlocks > blockList.newBlocks =>
                blockList.newBlocks = 0 /\ blockList'.newBlocks = 1)
          /\ ((/\ blockList.started
               /\ blockList'.currentBlocks > blockList.currentBlocks
               /\ blockList'.newBlocks = blockList.newBlocks) =>
                    blockList'.currentBlocks <= policy.desired)]_vars

\* The map holds as many current Blocks as the target of the policy and one
\* new Block, and the policy has refused to grow the current Blocks.
C30_Witness ==
    /\ ret.op = "ShouldGrowCurrentBlocks" /\ ~ret.ok
    /\ policy.desired = 2
    /\ blockList.currentBlocks = 2
    /\ blockList.newBlocks = 1

\* C31: the BlockList of a map that uses an immutable policy made for C
\* current and N new Blocks, grows its new Blocks only when the policy says
\* so and gets current Blocks from its new ones only never holds more than
\* C + N current and new Blocks together: a growth of the new Blocks adds one
\* while there are fewer, the current Blocks never grow on the answer of the
\* policy, and a new Block that becomes current leaves the sum as it is.
C31_ImmutablePolicyBoundsBlockList ==
    /\ [](blockList.started =>
            blockList.currentBlocks + blockList.newBlocks <= policy.desired)
    /\ [][blockList.started =>
            /\ blockList'.newBlocks > blockList.newBlocks =>
                    /\ blockList'.newBlocks = blockList.newBlocks + 1
                    /\ blockList'.currentBlocks = blockList.currentBlocks
                    /\ blockList.currentBlocks + blockList.newBlocks
                            < policy.desired
            /\ blockList'.currentBlocks > blockList.currentBlocks =>
                    /\ blockList'.currentBlocks = blockList.currentBlocks + 1
                    /\ blockList'.newBlocks = blockList.newBlocks - 1
            /\ ret'.op = "ShouldGrowCurrentBlocks" => ~ret'.ok]_vars

\* A policy that desires three Blocks, as the one made for two current and
\* one new Block does, has let the new Blocks of a map that has no current
\* Block grow from two to three, more than the one new Block configured.
C31_Witness ==
    /\ ret.op = "ShouldGrowNewBlocks" /\ ret.ok
    /\ policy.kind = "immutable" /\ policy.desired = 3
    /\ blockList.currentBlocks = 0
    /\ blockList.newBlocks = 3

(* ---------------------------- counter properties ---------------------- *)

\* The step is a call of NewBlock or NewBlockAtLocation that has returned.
Allocates == ret'.op \in {"NewBlock", "NewBlockAtLocation"} /\ ret' # ret

\* C32: the four counters never decrease; at most as many Blocks are released
\* as were allocated and at most as many reads completed as were started,
\* under every interleaving and whatever the callers do; the allocation
\* counter grows by one with every NewBlock and NewBlockAtLocation that
\* returns a Block and with nothing else; and the release counter grows by
\* one for every Block whose count has reached zero, when the Release that
\* saw the zero has appended the offset.
C32_Counters ==
    /\ [](/\ releases <= allocations
          /\ getsCompleted <= getsStarted
          /\ allocations = Len(blocks)
          /\ ~aborted => releases = Cardinality(
                {h \in Handles : blocks[h].usecount = 0 /\ ~blocks[h].freeing}))
    /\ [][/\ allocations' \in {allocations, allocations + 1}
          /\ releases' \in {releases, releases + 1}
          /\ getsStarted' \in {getsStarted, getsStarted + 1}
          /\ getsCompleted' \in {getsCompleted, getsCompleted + 1}
          /\ Allocates => allocations' =
                            allocations + (IF ret'.ok THEN 1 ELSE 0)
          /\ allocations' # allocations => (Allocates /\ ret'.ok)
          /\ \A h \in Handles :
                (blocks[h].usecount > 0 /\ blocks'[h].usecount = 0) =>
                    (blocks'[h].freeing /\ releases' = releases)
          /\ releases' # releases =>
                \E h \in Handles :
                    /\ blocks[h].usecount = 0
                    /\ blocks[h].freeing /\ ~blocks'[h].freeing]_vars

\* Two Blocks were allocated and one of them released, a read was started
\* and completed, and NewBlockAtLocation has then failed.
C32_Witness ==
    /\ ret.op = "NewBlockAtLocation" /\ ~ret.ok
    /\ allocations = 2 /\ releases = 1
    /\ getsStarted = 1 /\ getsCompleted = 1

(* ----------------------- concurrent release properties ---------------- *)

\* C33: while the callers keep the reference-count contract, the releases of
\* the references of a Block, by its owner, by the Close of its streams and
\* by its writers, in whatever order their decrements fall: none of them
\* panics, exactly the one that brings the count to zero goes on to append
\* the offset, and every offset is in the free list once or belongs to one
\* handle whose count is above zero or whose append is pending.
C33_ConcurrentLastReleases ==
    /\ [](NoRefcountViolation =>
            \A o \in AllOffsets :
                InFree(o) + Cardinality(LiveAt(o) \cup FreeingAt(o)) = 1)
    /\ [][NoRefcountViolation' =>
            \A h \in Handles :
                /\ blocks'[h].usecount < blocks[h].usecount =>
                        /\ ~aborted'
                        /\ blocks'[h].usecount = blocks[h].usecount - 1
                        /\ blocks'[h].usecount >= 0
                        /\ freeOffsets' = freeOffsets
                        /\ blocks'[h].freeing <=> blocks'[h].usecount = 0
                /\ (blocks[h].freeing /\ ~blocks'[h].freeing) =>
                        /\ blocks[h].usecount = 0
                        /\ freeOffsets' = Append(freeOffsets, Offset(h))
                /\ blocks'[h].freeing => blocks'[h].usecount = 0]_vars

\* The only Block was held by its owner, a stream and a writer; the owner
\* has released it and the stream was closed, and the writer, the last to
\* release, has brought the count to zero and is about to append the offset.
C33_Witness ==
    /\ NoRefcountViolation /\ ~aborted
    /\ Len(blocks) = 1
    /\ blocks[1].freeing /\ ~blocks[1].held
    /\ InFree(Offset(1)) = 0
    /\ getsStarted = 1 /\ getsCompleted = 1
    /\ \E w \in 1 .. Len(writers) :
            writers[w].block = 1 /\ writers[w].pc = "releasing"

(* ----------------------------- cursor properties ---------------------- *)

\* C34: the cursor of a Block changes only in phase 1 of a Put on it, which
\* adds ceil(sizeBytes / sectorSize) sectors, none for sizeBytes = 0 and never
\* a negative number; every other step leaves it alone, so that it never
\* decreases.
C34_CursorOnlyAdvances ==
    [][\A h \in Handles :
        /\ blocks'[h].writeOffsetSectors >= blocks[h].writeOffsetSectors
        /\ blocks'[h].writeOffsetSectors # blocks[h].writeOffsetSectors =>
                /\ Len(writers') = Len(writers) + 1
                /\ writers'[Len(writers')].block = h
        /\ (Len(writers') = Len(writers) + 1
                /\ writers'[Len(writers')].block = h) =>
                    blocks'[h].writeOffsetSectors =
                        blocks[h].writeOffsetSectors
                            + SectorsFor(writers'[Len(writers')].sizeBytes)]_vars

(* ---------------------------- certInfo properties --------------------- *)

\* C35: a call of the function of getCertificate or getClientCertificate
\* whose reload fails returns an error and leaves the certificate that was
\* loaded before in place, and no call finds the certInfo without a
\* certificate: none panics.
C35_FailedReloadKeepsCertificate ==
    [][ret'.op \in {"getCertificate", "getClientCertificate"} =>
        /\ ~aborted'
        /\ ~ret'.ok =>
                /\ certInfo'.svid = certInfo.svid
                /\ certInfo'.svid # NilSVID]_vars

====
